---- MODULE Spec2Model ----
(***************************************************************************)
(* A model of the raygun ray tracer: the parallel pixel dispatch of        *)
(* render, the light-collecting traversal of the scene graph, and the      *)
(* iterative trace loop with its nearest-hit search and direct lighting.   *)
(*                                                                         *)
(* Numbers.  Lengths and coordinates are exact integers in units of 1e-12  *)
(* (so the two offsets of the renderer, 1e-12 and 1e-6, are the integers   *)
(* 1 and 1000000), the scenes are laid out on a grid of Grid units, and    *)
(* rays and light beams are axis-aligned, which keeps every dot product,   *)
(* square root and normalisation of the source exact.  An operation whose  *)
(* result would not be an integer has no value in the model.  IEEE         *)
(* infinities and NaN are the values Inf, NegInf and NaN.                  *)
(***************************************************************************)
EXTENDS Integers, Sequences, FiniteSets, TLC

VARIABLES
    \* ---- Scene::lights (the light visitor) ----
    nodes,            \* the scene graph: node id -> [kind, transform, children, ...]
    objects,          \* Scene.objects: the top-level node ids, in order
    lpc,              \* position of the traversal
    li,               \* index into Scene.objects (Scene::visit's loop)
    lj,               \* index into the current union's children
    transform_stack,  \* LightVisitor.transform_stack
    lights,           \* LightVisitor.lights
    \* ---- trace ----
    rays,             \* the work queue of (ray, weight) pairs
    contribs,         \* the weighted contributions so far
    tpc,              \* position of trace: "idle", "loop" or "done"
    pixel,            \* the sum of the fold: at the end, the colour trace returns
    folded,           \* the number of contributions the fold has summed
    last_ray,         \* the ray of the last iteration
    last_ix,          \* what closest_intersecting_object found for it
    \* ---- render ----
    nthreads,         \* the size of the thread pool
    width,            \* RenderOptions.width
    height,           \* RenderOptions.height
    traced,           \* pixel -> what trace does for the ray of that pixel
    rpc,              \* position of the closure: "idle", "spawn", "gather",
                      \* "join", "done" or "failed"
    sx,               \* x of the spawn loops
    sy,               \* y of the spawn loops
    tasks,            \* spawned pixel -> "queued", "running", "sent" or "panicked"
    chan,             \* the messages sent and not yet received
    received,         \* the pixels received, in the order of their messages
    img,              \* the image
    \* ---- a call of one function ----
    call,             \* the function called and its arguments
    cpc,              \* "idle", "called", "returned" or "panicked"
    ret               \* the value returned

lvars == <<nodes, objects, lpc, li, lj, transform_stack, lights>>

tvars == <<rays, contribs, tpc, pixel, folded, last_ray, last_ix>>

rvars == <<nthreads, width, height, traced, rpc, sx, sy, tasks, chan, received, img>>

cvars == <<call, cpc, ret>>

vars == <<lvars, tvars, rvars, cvars>>

-----------------------------------------------------------------------------
(* Bounds of the model *)

\* number of nodes of a scene graph
MaxNodes == 3

\* number of top-level objects of a traced scene
MaxObjects == 3

\* size of the thread pool
MaxThreads == 3

\* low word of the width and of the height of the image
MaxWidth == 2

MaxHeight == 2

\* number of objects of a scene a light ray is cast into
MaxOccluders == 2

\* the most steps in the construction of one transform
MaxSteps == 3

\* the most children of a union whose bounding box is taken
MaxChildren == 2

\* number of mirrors of a scene of mirrors
MaxMirrors == 2

\* number of contributions a trace keeps
MaxContribs == 80

\* spacing of the grid the scenes are laid out on, in units of 1e-12
Grid == 10000000

-----------------------------------------------------------------------------
(* Scalars: f64 as exact integers, with the three IEEE special values.     *)
(* As in the source, an operation works on the values of its operands:     *)
(* At(F, a) is F at the value of a.                                        *)

At(F(_), a) == CHOOSE r \in {F(x) : x \in {a}} : TRUE

At2(F(_, _), a, b) == CHOOSE r \in {F(x, y) : x \in {a}, y \in {b}} : TRUE

Inf == 2000000000

NegInf == -2000000000

NaN == 2100000000

IsNaN(a) == a = NaN

IsInf(a) == a = Inf \/ a = NegInf

IsFinite(a) == ~IsNaN(a) /\ ~IsInf(a)

Abs(a) == IF a < 0 THEN -a ELSE a

Sign(a) == IF a < 0 THEN -1 ELSE IF a > 0 THEN 1 ELSE 0

\* a / b for finite a and b # 0, defined only where the quotient is exact
ExactDiv(a, b) ==
    At2(LAMBDA x, y :
            IF (Abs(x) \div Abs(y)) * Abs(y) = Abs(x)
            THEN Sign(x) * Sign(y) * (Abs(x) \div Abs(y))
            ELSE CHOOSE q \in {} : TRUE,
        a, b)

FNeg(a) == At(LAMBDA x : IF IsNaN(x) THEN NaN ELSE -x, a)

FAdd(a, b) ==
    At2(LAMBDA x, y :
            IF IsNaN(x) \/ IsNaN(y) THEN NaN
            ELSE IF IsInf(x) THEN (IF IsInf(y) /\ y # x THEN NaN ELSE x)
            ELSE IF IsInf(y) THEN y
            ELSE x + y,
        a, b)

FSub(a, b) == FAdd(a, FNeg(b))

FMul(a, b) ==
    At2(LAMBDA x, y :
            IF IsNaN(x) \/ IsNaN(y) THEN NaN
            ELSE IF IsInf(x) \/ IsInf(y)
                 THEN (IF x = 0 \/ y = 0 THEN NaN
                       ELSE IF Sign(x) * Sign(y) > 0 THEN Inf ELSE NegInf)
            ELSE x * y,
        a, b)

\* a / b; a zero divisor is +0.0
FDiv(a, b) ==
    At2(LAMBDA x, y :
            IF IsNaN(x) \/ IsNaN(y) THEN NaN
            ELSE IF IsInf(x) THEN (IF IsInf(y) THEN NaN
                                   ELSE IF Sign(x) * Sign(y) < 0 THEN NegInf ELSE Inf)
            ELSE IF IsInf(y) THEN 0
            ELSE IF y = 0 THEN (IF x = 0 THEN NaN ELSE IF x > 0 THEN Inf ELSE NegInf)
            ELSE ExactDiv(x, y),
        a, b)

\* a < b and a > b: false when either side is NaN
FLt(a, b) == At2(LAMBDA x, y : ~IsNaN(x) /\ ~IsNaN(y) /\ x < y, a, b)

FGt(a, b) == FLt(b, a)

\* f64::max: the other operand when one is NaN
FMax(a, b) ==
    At2(LAMBDA x, y : IF IsNaN(x) THEN y ELSE IF IsNaN(y) THEN x
                      ELSE IF x < y THEN y ELSE x,
        a, b)

\* f64::powf for a positive exponent, at the bases 0 and 1 the shading reaches
powf(a, e) ==
    At(LAMBDA x : IF IsNaN(x) THEN NaN
                  ELSE IF x = 0 \/ x = 1 THEN x
                  ELSE CHOOSE y \in {} : TRUE,
       a)

\* sqrt(x*x + y*y + z*z) of the vector v: |c| when c is its only non-zero
\* component, otherwise the integer root of the sum of squares (no value when
\* there is none)
Hypot(v) ==
    At(LAMBDA u :
           IF IsNaN(u[1]) \/ IsNaN(u[2]) \/ IsNaN(u[3]) THEN NaN
           ELSE IF IsInf(u[1]) \/ IsInf(u[2]) \/ IsInf(u[3]) THEN Inf
           ELSE IF u[2] = 0 /\ u[3] = 0 THEN Abs(u[1])
           ELSE IF u[1] = 0 /\ u[3] = 0 THEN Abs(u[2])
           ELSE IF u[1] = 0 /\ u[2] = 0 THEN Abs(u[3])
           ELSE CHOOSE r \in 0..(Abs(u[1]) + Abs(u[2]) + Abs(u[3])) :
                    r * r = (u[1] * u[1]) + (u[2] * u[2]) + (u[3] * u[3]),
       v)

-----------------------------------------------------------------------------
(* Vectors and points: <<x, y, z>> *)

vector(x, y, z) == <<x, y, z>>

point(x, y, z) == <<x, y, z>>

VAdd(a, b) ==
    At2(LAMBDA u, v : <<FAdd(u[1], v[1]), FAdd(u[2], v[2]), FAdd(u[3], v[3])>>, a, b)

VSub(a, b) ==
    At2(LAMBDA u, v : <<FSub(u[1], v[1]), FSub(u[2], v[2]), FSub(u[3], v[3])>>, a, b)

VScale(a, k) ==
    At2(LAMBDA u, c : <<FMul(u[1], c), FMul(u[2], c), FMul(u[3], c)>>, a, k)

dot(a, b) ==
    At2(LAMBDA u, v : FAdd(FAdd(FMul(u[1], v[1]), FMul(u[2], v[2])), FMul(u[3], v[3])),
        a, b)

length(v) == Hypot(v)

\* Vector::normalize: each component times 1/length
normalize(v) ==
    At2(LAMBDA u, len : <<FDiv(u[1], len), FDiv(u[2], len), FDiv(u[3], len)>>,
        v, length(v))

-----------------------------------------------------------------------------
(* 4x4 matrices: a 16-tuple in the order of the source's array *)

idx(i, j) == (i * 4) + j + 1

IDENTITY == <<1, 0, 0, 0,
              0, 1, 0, 0,
              0, 0, 1, 0,
              0, 0, 0, 1>>

translation_matrix(x, y, z) == <<1, 0, 0, x,
                                 0, 1, 0, y,
                                 0, 0, 1, z,
                                 0, 0, 0, 1>>

scaling_matrix(x, y, z) == <<x, 0, 0, 0,
                             0, y, 0, 0,
                             0, 0, z, 0,
                             0, 0, 0, 1>>

row_col_dot_product(a, b, i, j) ==
    FAdd(FAdd(FAdd(FMul(a[idx(0, j)], b[idx(i, 0)]),
                   FMul(a[idx(1, j)], b[idx(i, 1)])),
              FMul(a[idx(2, j)], b[idx(i, 2)])),
         FMul(a[idx(3, j)], b[idx(i, 3)]))

\* Matrix * Matrix
MatMul(lhs, rhs) ==
    [n \in 1..16 |-> row_col_dot_product(lhs, rhs, (n - 1) \div 4, (n - 1) % 4)]

\* Matrix * Vector
MatVec(m, v) ==
    At2(LAMBDA mm, vv :
            LET row(i) == FAdd(FAdd(FAdd(FMul(mm[idx(i, 0)], vv[1]),
                                         FMul(mm[idx(i, 1)], vv[2])),
                                    FMul(mm[idx(i, 2)], vv[3])),
                               mm[idx(i, 3)])
                inv_w == FDiv(1, mm[idx(3, 3)])
            IN  <<FMul(row(0), inv_w), FMul(row(1), inv_w), FMul(row(2), inv_w)>>,
        m, v)

-----------------------------------------------------------------------------
(* Transform: a matrix and its inverse *)

identity == [matrix |-> IDENTITY, inverse |-> IDENTITY]

for_translation(x, y, z) ==
    [matrix |-> translation_matrix(x, y, z),
     inverse |-> translation_matrix(-x, -y, -z)]

for_scale(x, y, z) ==
    [matrix |-> scaling_matrix(x, y, z),
     inverse |-> scaling_matrix(FDiv(1, x), FDiv(1, y), FDiv(1, z))]

\* Transform::apply with the inverses multiplied in the order of the matrices
apply_same_order(self, other) ==
    [matrix |-> MatMul(self.matrix, other.matrix),
     inverse |-> MatMul(self.inverse, other.inverse)]

apply(self, other) ==
    [matrix |-> MatMul(self.matrix, other.matrix),
     inverse |-> MatMul(other.inverse, self.inverse)]

-----------------------------------------------------------------------------
(* Option<T>: <<>> is None and <<x>> is Some(x) *)

NoneOpt == <<>>

Some(x) == <<x>>

IsSome(o) == o # <<>>

Unwrap(o) == o[1]

Last(s) == s[Len(s)]

-----------------------------------------------------------------------------
(* Colours: <<r, g, b>>, each channel in units of 1/ColourUnit *)

ColourUnit == 4 * 5

COLOUR_BLACK == <<0, 0, 0>>

COLOUR_WHITE == <<ColourUnit, ColourUnit, ColourUnit>>

COLOUR_RED == <<ColourUnit, 0, 0>>

\* Colour + Colour
CAdd(a, b) == <<FAdd(a[1], b[1]), FAdd(a[2], b[2]), FAdd(a[3], b[3])>>

\* Colour * Colour
CMul(a, b) ==
    <<ExactDiv(a[1] * b[1], ColourUnit), ExactDiv(a[2] * b[2], ColourUnit),
      ExactDiv(a[3] * b[3], ColourUnit)>>

\* Colour * f64, the factor being a coefficient in units of 1/ColourUnit
CTimes(c, k) ==
    <<ExactDiv(c[1] * k, ColourUnit), ExactDiv(c[2] * k, ColourUnit),
      ExactDiv(c[3] * k, ColourUnit)>>

\* Colour * f64, the factor being a plain number
CScale(c, k) == <<FMul(c[1], k), FMul(c[2], k), FMul(c[3], k)>>

-----------------------------------------------------------------------------
(* Objects of the scene graph.  An Object is a record                      *)
(*   kind       the primitive: "PointLight", "Union" or "Plane"            *)
(*   transform  Option<Transform>                                          *)
(*   children   Union.children, as node ids                                *)
(*   loc, colour          PointLight                                       *)
(*   normal, offset       Plane                                            *)
(*   finish, pigment      Material                                         *)
(* A Finish is [reflection, ambient, diffuse, highlight_hardness], the     *)
(* three coefficients in units of 1/ColourUnit.                            *)

\* Finish::default: reflection 0.0, ambient 0.1, diffuse 0.75, hardness 500.0
DefaultFinish ==
    [reflection |-> 0, ambient |-> ExactDiv(ColourUnit, 10),
     diffuse |-> ExactDiv(3 * ColourUnit, 4), highlight_hardness |-> 500]

PointLightObject(loc, colour) ==
    [kind |-> "PointLight", transform |-> NoneOpt, children |-> <<>>,
     loc |-> loc, colour |-> colour, normal |-> <<0, 0, 0>>, offset |-> 0,
     finish |-> DefaultFinish, pigment |-> COLOUR_BLACK]

UnionObject(transform, children) ==
    [kind |-> "Union", transform |-> transform, children |-> children,
     loc |-> <<0, 0, 0>>, colour |-> COLOUR_BLACK, normal |-> <<0, 0, 0>>, offset |-> 0,
     finish |-> DefaultFinish, pigment |-> COLOUR_BLACK]

PlaneObject(normal, offset, finish, pigment) ==
    [kind |-> "Plane", transform |-> NoneOpt, children |-> <<>>,
     loc |-> <<0, 0, 0>>, colour |-> COLOUR_BLACK, normal |-> normal, offset |-> offset,
     finish |-> finish, pigment |-> pigment]

\* Object::as_light / Primitive::as_light: only a PointLight is a light
as_light(obj) == IF obj.kind = "PointLight" THEN Some(obj) ELSE NoneOpt

-----------------------------------------------------------------------------
(* Scene::lights: the LightVisitor.  A visitor is                          *)
(* [transform_stack, lights]; a LightInfo is [transform, light], the light *)
(* being the node id of the light object.                                  *)

NewLightVisitor == [transform_stack |-> <<identity>>, lights |-> <<>>]

\* a push_transform that puts the new transform in the place of the head
push_transform_replaces(v, t) ==
    LET head == Last(v.transform_stack)
    IN  [v EXCEPT !.transform_stack = SubSeq(@, 1, Len(@) - 1) \o <<apply(head, t)>>]

push_transform(v, t) ==
    LET head == Last(v.transform_stack)
    IN  [v EXCEPT !.transform_stack = Append(@, apply(head, t))]

\* a pop_transform that leaves the stack as it is
pop_transform_keeps(v) == v

pop_transform(v) ==
    [v EXCEPT !.transform_stack = SubSeq(@, 1, Len(@) - 1)]

visit(v, ns, n) ==
    IF IsSome(as_light(ns[n]))
    THEN [v EXCEPT !.lights = Append(@, [transform |-> Last(v.transform_stack),
                                          light |-> n])]
    ELSE v

\* the transform Union::accept_children pushes
UnionTransform(obj) ==
    IF IsSome(obj.transform) THEN Unwrap(obj.transform) ELSE identity

-----------------------------------------------------------------------------
(* The scene graphs of the model: forests over the nodes 1..n, a node's    *)
(* parent being a union with a smaller id (0: a top-level object), the     *)
(* children of a union and the top-level objects in the order of their ids *)

RECURSIVE AscSeq(_)
AscSeq(S) ==
    IF S = {} THEN <<>>
    ELSE LET m == CHOOSE x \in S : \A y \in S : x <= y
         IN  <<m>> \o AscSeq(S \ {m})

Kinds == {"PointLight", "Union", "Plane"}

UnionTransforms ==
    {NoneOpt, Some(for_translation(Grid, 0, 0)), Some(for_scale(-1, 1, 1))}

Forests(n) ==
    {f \in [1..n -> [kind : Kinds, parent : 0..(n - 1), transform : UnionTransforms]] :
        \A i \in 1..n :
            /\ f[i].parent < i
            /\ f[i].parent # 0 => f[f[i].parent].kind = "Union"
            /\ f[i].kind # "Union" => f[i].transform = NoneOpt}

ChildrenOf(f, m) == AscSeq({i \in DOMAIN f : f[i].parent = m})

LightLoc == point(0, 0, 2 * Grid)

GraphOf(f) ==
    [i \in DOMAIN f |->
        CASE f[i].kind = "PointLight" -> PointLightObject(LightLoc, COLOUR_WHITE)
          [] f[i].kind = "Union" -> UnionObject(f[i].transform, ChildrenOf(f, i))
          [] OTHER -> PlaneObject(vector(0, 0, -1), -(3 * Grid), DefaultFinish, COLOUR_WHITE)]

-----------------------------------------------------------------------------
(* Scene::lights as a state machine: Scene::visit's loop over the          *)
(* top-level objects, Object::accept and Union::accept_children            *)

\* the parts of the program that are not running
LightsIdle ==
    /\ nodes = <<>>
    /\ objects = <<>>
    /\ lpc = "idle"
    /\ li = 0
    /\ lj = 0
    /\ transform_stack = <<>>
    /\ lights = <<>>

TraceIdle ==
    /\ rays = <<>>
    /\ contribs = <<>>
    /\ tpc = "idle"
    /\ pixel = [num |-> COLOUR_BLACK, den |-> 1]
    /\ folded = 0
    /\ last_ray = NoneOpt
    /\ last_ix = NoneOpt

RenderIdle ==
    /\ nthreads = 1
    /\ width = [hi |-> 0, lo |-> 1]
    /\ height = [hi |-> 0, lo |-> 1]
    /\ traced = <<>>
    /\ rpc = "idle"
    /\ sx = 0
    /\ sy = 0
    /\ tasks = <<>>
    /\ chan = <<>>
    /\ received = <<>>
    /\ img = <<>>

CallIdle ==
    /\ call = <<>>
    /\ cpc = "idle"
    /\ ret = <<>>

LightsInit ==
    \E n \in 1..MaxNodes : \E f \in Forests(n) :
        /\ nodes = GraphOf(f)
        /\ objects = ChildrenOf(f, 0)
        /\ lpc = "visit"
        /\ li = 1
        /\ lj = 0
        /\ transform_stack = NewLightVisitor.transform_stack
        /\ lights = NewLightVisitor.lights
        /\ TraceIdle
        /\ RenderIdle
        /\ CallIdle

Visitor == [transform_stack |-> transform_stack, lights |-> lights]

SetVisitor(v) ==
    /\ transform_stack' = v.transform_stack
    /\ lights' = v.lights

\* Scene::visit: v.visit(Arc::clone(o))
VisitObject ==
    /\ lpc = "visit"
    /\ li <= Len(objects)
    /\ SetVisitor(visit(Visitor, nodes, objects[li]))
    /\ lpc' = "accept"
    /\ UNCHANGED <<nodes, objects, li, lj, tvars, rvars, cvars>>

\* Scene::visit: o.accept(v), for a primitive without children
AcceptLeaf ==
    /\ lpc = "accept"
    /\ nodes[objects[li]].kind # "Union"
    /\ lpc' = "visit"
    /\ li' = li + 1
    /\ UNCHANGED <<nodes, objects, lj, transform_stack, lights, tvars, rvars, cvars>>

\* Union::accept_children: v.push_transform(&transform)
AcceptUnion ==
    /\ lpc = "accept"
    /\ nodes[objects[li]].kind = "Union"
    /\ SetVisitor(push_transform(Visitor, UnionTransform(nodes[objects[li]])))
    /\ lpc' = "children"
    /\ lj' = 1
    /\ UNCHANGED <<nodes, objects, li, tvars, rvars, cvars>>

\* Union::accept_children: v.visit(Arc::clone(child))
VisitChild ==
    /\ lpc = "children"
    /\ lj <= Len(nodes[objects[li]].children)
    /\ SetVisitor(visit(Visitor, nodes, nodes[objects[li]].children[lj]))
    /\ lj' = lj + 1
    /\ UNCHANGED <<nodes, objects, lpc, li, tvars, rvars, cvars>>

\* Union::accept_children: v.pop_transform(), and back to Scene::visit's loop
LeaveUnion ==
    /\ lpc = "children"
    /\ lj > Len(nodes[objects[li]].children)
    /\ SetVisitor(pop_transform(Visitor))
    /\ lpc' = "visit"
    /\ li' = li + 1
    /\ lj' = 0
    /\ UNCHANGED <<nodes, objects, tvars, rvars, cvars>>

\* Scene::lights: return visitor.lights
ReturnLights ==
    /\ lpc = "visit"
    /\ li > Len(objects)
    /\ lpc' = "done"
    /\ UNCHANGED <<nodes, objects, li, lj, transform_stack, lights, tvars, rvars, cvars>>

LightsNext ==
    \/ VisitObject
    \/ AcceptLeaf
    \/ AcceptUnion
    \/ VisitChild
    \/ LeaveUnion
    \/ ReturnLights

LightsSpec == LightsInit /\ [][LightsNext]_vars

-----------------------------------------------------------------------------
(* Rays: [src, dir] *)

\* Vector::transform: the matrix applied to a direction (no translation)
vector_transform(v, m) ==
    At2(LAMBDA vv, mm :
            LET row(i) == FAdd(FAdd(FMul(mm[idx(i, 0)], vv[1]),
                                    FMul(mm[idx(i, 1)], vv[2])),
                               FMul(mm[idx(i, 2)], vv[3]))
            IN  <<row(0), row(1), row(2)>>,
        v, m)

\* Ray::new
NewRay(src, dir) == [src |-> src, dir |-> normalize(dir)]

\* Ray::extend
extend(r, len) == VAdd(r.src, VScale(r.dir, len))

\* Ray::reflect
ray_reflect(r, normal, surface) ==
    LET dir == VAdd(VScale(normal, FMul(-2, dot(r.dir, normal))), r.dir)
    IN  [src |-> surface, dir |-> normalize(dir)]

\* Ray::transform
ray_transform(r, t) ==
    LET s == MatVec(t, r.src)
        d == normalize(vector_transform(r.dir, t))
    IN  NewRay(s, d)

-----------------------------------------------------------------------------
(* Primitives and Object *)

\* Plane::intersects
plane_intersects(obj, r) ==
    LET n == FSub(obj.offset, dot(r.src, obj.normal))
        d == dot(r.dir, obj.normal)
    IN  At(LAMBDA a : IF FGt(a, 0) THEN Some(a) ELSE NoneOpt, FDiv(n, d))

\* f64::min: the other operand when one is NaN
FMin(a, b) ==
    At2(LAMBDA x, y : IF IsNaN(x) THEN y ELSE IF IsNaN(y) THEN x
                      ELSE IF y < x THEN y ELSE x,
        a, b)

\* f64::sqrt, where the root is exact; NaN for a negative or NaN operand
sqrt(a) ==
    At(LAMBDA x : IF IsNaN(x) \/ x < 0 THEN NaN
                  ELSE IF x = Inf THEN Inf
                  ELSE CHOOSE r \in 0..x : r * r = x,
       a)

\* Vector::between: the vector from src to dst
between(src, dst) == VSub(dst, src)

\* math::sort
sort(a, b) == IF FLt(a, b) THEN <<a, b>> ELSE <<b, a>>

\* math::unit_vectors, as Box::normal names them
NEG_X == vector(-1, 0, 0)

POS_X == vector(1, 0, 0)

NEG_Y == vector(0, -1, 0)

POS_Y == vector(0, 1, 0)

NEG_Z == vector(0, 0, -1)

POS_Z == vector(0, 0, 1)

\* Box::new, as the primitive of an Object
BoxObject(lower, upper, transform) ==
    [kind |-> "Box", transform |-> transform, children |-> <<>>,
     lower |-> lower, upper |-> upper,
     finish |-> DefaultFinish, pigment |-> COLOUR_WHITE]

\* Sphere::new, as the primitive of an Object
SphereObject(centre, radius, transform) ==
    [kind |-> "Sphere", transform |-> transform, children |-> <<>>,
     centre |-> centre, radius |-> radius,
     finish |-> DefaultFinish, pigment |-> COLOUR_WHITE]

\* Box::intersects
box_intersects(obj, r) ==
    LET t_lower_x == FDiv(FSub(obj.lower[1], r.src[1]), r.dir[1])
        t_upper_x == FDiv(FSub(obj.upper[1], r.src[1]), r.dir[1])
        t_lower_y == FDiv(FSub(obj.lower[2], r.src[2]), r.dir[2])
        t_upper_y == FDiv(FSub(obj.upper[2], r.src[2]), r.dir[2])
        t_lower_z == FDiv(FSub(obj.lower[3], r.src[3]), r.dir[3])
        t_upper_z == FDiv(FSub(obj.upper[3], r.src[3]), r.dir[3])
        t_min == FMax(FMax(FMin(t_lower_x, t_upper_x), FMin(t_lower_y, t_upper_y)),
                      FMin(t_lower_z, t_upper_z))
        t_max == FMin(FMin(FMax(t_lower_x, t_upper_x), FMax(t_lower_y, t_upper_y)),
                      FMax(t_lower_z, t_upper_z))
    IN  At2(LAMBDA lo, hi : IF FLt(hi, 0) THEN NoneOpt
                            ELSE IF FGt(lo, hi) THEN NoneOpt
                            ELSE Some(lo),
            t_min, t_max)

\* Box::normal: EPSILON is 1e-10
EPSILON == 100

\* Box::normal: whether pt is within EPSILON of the bound, on one axis
near(a, bound) == FLt(Abs(FSub(a, bound)), EPSILON)

\* Box::normal: the point matches none of the six tests, which is the panic
box_normal_panics(obj, pt) ==
    /\ ~near(pt[1], obj.lower[1])
    /\ ~near(pt[1], obj.upper[1])
    /\ ~near(pt[2], obj.lower[2])
    /\ ~near(pt[2], obj.upper[2])
    /\ ~near(pt[3], obj.lower[2])
    /\ ~near(pt[3], obj.upper[3])

\* Box::normal, where it returns
box_normal(obj, pt) ==
    IF near(pt[1], obj.lower[1]) THEN NEG_X
    ELSE IF near(pt[1], obj.upper[1]) THEN POS_X
    ELSE IF near(pt[2], obj.lower[2]) THEN NEG_Y
    ELSE IF near(pt[2], obj.upper[2]) THEN POS_Y
    ELSE IF near(pt[3], obj.lower[2]) THEN NEG_Z
    ELSE IF near(pt[3], obj.upper[3]) THEN POS_Z
    ELSE CHOOSE v \in {} : TRUE

\* Sphere::intersects, returning the far crossing t2 for the near one t1
sphere_intersects_far(obj, r) ==
    LET dist == between(r.src, obj.centre)
        b == dot(r.dir, dist)
    IN  At2(LAMBDA bb, d2 :
                IF FLt(d2, 0) THEN NoneOpt
                ELSE At(LAMBDA d :
                            IF FGt(FAdd(bb, d), 0) THEN Some(FAdd(bb, d)) ELSE NoneOpt,
                        sqrt(d2)),
            b,
            FAdd(FSub(FMul(b, b), dot(dist, dist)), FMul(obj.radius, obj.radius)))

\* Sphere::intersects
sphere_intersects(obj, r) ==
    LET dist == between(r.src, obj.centre)
        b == dot(r.dir, dist)
    IN  At2(LAMBDA bb, d2 :
                IF FLt(d2, 0) THEN NoneOpt
                ELSE At(LAMBDA d :
                            LET t1 == FSub(bb, d)
                                t2 == FAdd(bb, d)
                            IN  IF FGt(t2, 0)
                                THEN Some(IF FGt(t1, 0) THEN t1 ELSE t2)
                                ELSE NoneOpt,
                        sqrt(d2)),
            b,
            FAdd(FSub(FMul(b, b), dot(dist, dist)), FMul(obj.radius, obj.radius)))

\* Sphere::normal
sphere_normal(obj, pt) == normalize(VSub(pt, obj.centre))

\* Primitive::intersects: a Union and a PointLight have no surface
primitive_intersects(obj, r) ==
    CASE obj.kind = "Plane" -> plane_intersects(obj, r)
      [] obj.kind = "Box" -> box_intersects(obj, r)
      [] obj.kind = "Sphere" -> sphere_intersects(obj, r)
      [] OTHER -> NoneOpt

\* Primitive::normal: the zero vector for a Union; the normal of a PointLight
\* is a panic and has no value
primitive_normal(obj, pt) ==
    CASE obj.kind = "Plane" -> obj.normal
      [] obj.kind = "Box" -> box_normal(obj, pt)
      [] obj.kind = "Sphere" -> sphere_normal(obj, pt)
      [] obj.kind = "Union" -> vector(0, 0, 0)
      [] OTHER -> CHOOSE v \in {} : TRUE

\* Object::intersects: Option<Point>
object_intersects(obj, r) ==
    At(LAMBDA r_ :
           At(LAMBDA hit :
                  IF IsSome(hit)
                  THEN LET object_space_point == extend(r_, Unwrap(hit))
                       IN  Some(IF IsSome(obj.transform)
                                THEN MatVec(Unwrap(obj.transform).matrix,
                                            object_space_point)
                                ELSE object_space_point)
                  ELSE NoneOpt,
              primitive_intersects(obj, r_)),
       IF IsSome(obj.transform)
       THEN ray_transform(r, Unwrap(obj.transform).inverse)
       ELSE r)

\* Material::sample
sample(obj, p) == [colour |-> obj.pigment, finish |-> obj.finish]

\* Object::surface_at: SurfaceInfo
surface_at(obj, pt) ==
    LET local_pt == IF IsSome(obj.transform)
                    THEN MatVec(Unwrap(obj.transform).inverse, pt)
                    ELSE pt
        object_space_normal == primitive_normal(obj, local_pt)
        world_space_normal ==
            IF IsSome(obj.transform)
            THEN vector_transform(object_space_normal, Unwrap(obj.transform).matrix)
            ELSE object_space_normal
    IN  [normal |-> world_space_normal,
         colour |-> sample(obj, local_pt).colour,
         finish |-> sample(obj, local_pt).finish]

-----------------------------------------------------------------------------
(* render.rs: the nearest hit.  An Intersection is [obj, dist, point], obj *)
(* being the node id of the object.                                        *)

distance(a, b) ==
    At2(LAMBDA p, q : Hypot(<<FSub(q[1], p[1]), FSub(q[2], p[2]), FSub(q[3], p[3])>>),
        a, b)

\* a comparison that also lets an object at the same distance take over
closer_or_equal(n, min_dist) == ~IsNaN(n) /\ ~IsNaN(min_dist) /\ n <= min_dist

\* closest_intersecting_object: if n < min_dist
closer(n, min_dist) == FLt(n, min_dist)

\* closest_intersecting_object: the loop over scene.objects, from object k on
RECURSIVE closest_scan(_, _, _, _, _)
closest_scan(r, ns, objs, k, acc) ==
    IF k > Len(objs) THEN acc
    ELSE closest_scan(r, ns, objs, k + 1,
             At(LAMBDA hit :
                    IF IsSome(hit)
                    THEN At(LAMBDA n :
                                IF closer(n, acc.min_dist)
                                THEN [min_dist |-> n,
                                      intersecting_obj |-> Some(objs[k]),
                                      intersection_point |-> Unwrap(hit)]
                                ELSE acc,
                            distance(r.src, Unwrap(hit)))
                    ELSE acc,
                object_intersects(ns[objs[k]], r)))

\* the objects from object k on, each followed by its children
RECURSIVE with_children(_, _, _)
with_children(ns, objs, k) ==
    IF k > Len(objs) THEN <<>>
    ELSE <<objs[k]>> \o ns[objs[k]].children \o with_children(ns, objs, k + 1)

\* a closest_intersecting_object that also tests the children of the unions
closest_of_all_nodes(r, ns, objs) ==
    LET acc == closest_scan(r, ns, with_children(ns, objs, 1), 1,
                   [min_dist |-> Inf,
                    intersecting_obj |-> NoneOpt,
                    intersection_point |-> point(NaN, NaN, NaN)])
    IN  IF IsSome(acc.intersecting_obj)
        THEN Some([obj |-> Unwrap(acc.intersecting_obj),
                   dist |-> acc.min_dist,
                   point |-> acc.intersection_point])
        ELSE NoneOpt

closest_intersecting_object(r, ns, objs) ==
    LET acc == closest_scan(r, ns, objs, 1,
                   [min_dist |-> Inf,
                    intersecting_obj |-> NoneOpt,
                    intersection_point |-> point(NaN, NaN, NaN)])
    IN  IF IsSome(acc.intersecting_obj)
        THEN Some([obj |-> Unwrap(acc.intersecting_obj),
                   dist |-> acc.min_dist,
                   point |-> acc.intersection_point])
        ELSE NoneOpt

-----------------------------------------------------------------------------
(* render.rs: direct lighting *)

\* Light::src of a PointLight
light_src(obj) == obj.loc

\* Light::illuminates of a PointLight
illuminates(obj, p) == Some(obj.colour)

\* an is_shadowed that counts a hit at the light's own distance
is_shadowed_or_equal(light_ray, light_distance, ns, objs) ==
    LET ix == closest_intersecting_object(light_ray, ns, objs)
    IN  IF IsSome(ix) THEN ~FLt(light_distance, Unwrap(ix).dist) ELSE FALSE

\* is_shadowed
is_shadowed(light_ray, light_distance, ns, objs) ==
    LET ix == closest_intersecting_object(light_ray, ns, objs)
    IN  IF IsSome(ix) THEN FLt(Unwrap(ix).dist, light_distance) ELSE FALSE

blinn_phong_highlight(viewdir, light_ray, surface_normal, light_colour, finish) ==
    IF ~IsInf(finish.highlight_hardness)
    THEN LET half_vector == normalize(VSub(light_ray.dir, viewdir))
             intensity == powf(FMax(dot(half_vector, surface_normal), 0),
                               finish.highlight_hardness)
         IN  CScale(light_colour, intensity)
    ELSE COLOUR_BLACK

\* a body of the loop that leaves out the shadow test
light_term_unshadowed(result, light_info, viewdir, surface_pt, surface_normal, surface_colour, surface_finish, ns, objs) ==
    LET light == Unwrap(as_light(ns[light_info.light]))
        light_colour == Unwrap(illuminates(light, MatVec(light_info.transform.matrix, surface_pt)))
        light_beam == VSub(light_src(light), surface_pt)
        light_ray == NewRay(surface_pt, normalize(light_beam))
    IN  IF FGt(dot(light_beam, surface_normal), 0)
        THEN CAdd(CAdd(result,
                       CScale(CMul(CTimes(surface_colour, surface_finish.diffuse), light_colour),
                              dot(light_ray.dir, surface_normal))),
                  blinn_phong_highlight(viewdir, light_ray, surface_normal, light_colour, surface_finish))
        ELSE result

\* light_surface: the body of the loop, for one light
light_term(result, light_info, viewdir, surface_pt, surface_normal, surface_colour, surface_finish, ns, objs) ==
    LET light == Unwrap(as_light(ns[light_info.light]))
        point_in_light_space == MatVec(light_info.transform.matrix, surface_pt)
        lit == illuminates(light, point_in_light_space)
        light_colour == Unwrap(lit)
        light_beam == VSub(light_src(light), surface_pt)
        pp == VAdd(surface_pt, VScale(surface_normal, 1000 * 1000))
        light_ray == NewRay(pp, normalize(light_beam))
        lambert_coeff == dot(light_ray.dir, surface_normal)
        diffuse == CScale(CMul(CTimes(surface_colour, surface_finish.diffuse),
                               light_colour),
                          lambert_coeff)
        specular == blinn_phong_highlight(viewdir, light_ray, surface_normal,
                                          light_colour, surface_finish)
    IN  IF /\ IsSome(lit)
           /\ FGt(dot(light_beam, surface_normal), 0)
           /\ ~is_shadowed(light_ray, length(light_beam), ns, objs)
        THEN CAdd(CAdd(result, diffuse), specular)
        ELSE result

\* light_surface: the loop over the lights, from light k on
RECURSIVE light_scan(_, _, _, _, _, _, _, _, _, _)
light_scan(ls, k, result, viewdir, surface_pt, surface_normal, surface_colour, surface_finish, ns, objs) ==
    IF k > Len(ls) THEN result
    ELSE light_scan(ls, k + 1,
             light_term(result, ls[k], viewdir, surface_pt, surface_normal,
                        surface_colour, surface_finish, ns, objs),
             viewdir, surface_pt, surface_normal, surface_colour,
             surface_finish, ns, objs)

light_surface(viewdir, surface_pt, surface_normal, surface_colour, surface_finish, ns, objs, ls) ==
    light_scan(ls, 1, CTimes(surface_colour, surface_finish.ambient),
               viewdir, surface_pt, surface_normal, surface_colour,
               surface_finish, ns, objs)

\* reflect: the reflected ray, moved 1e-12 along the normal
reflect(inbound, pt, normal) ==
    LET reflected == ray_reflect(inbound, normal, pt)
        offset == VScale(normal, 1)
    IN  [src |-> VAdd(reflected.src, offset), dir |-> reflected.dir]

\* Scene::sky
sky(r) == COLOUR_BLACK

-----------------------------------------------------------------------------
(* Weights.  A weight is the fraction num/den, den a number of two digits  *)
(* in base 10^6, [hi, lo], so that 1e-12 is 1/[hi |-> 10^6, lo |-> 0].     *)
(* A weighted colour is [num, den]: the colour num/(den * ColourUnit).     *)

Million == 1000 * 1000

RECURSIVE GCD(_, _)
GCD(a, b) == IF b = 0 THEN Abs(a) ELSE GCD(b, a % b)

BigMul(b, k) ==
    [hi |-> (b.hi * k) + ((b.lo * k) \div Million), lo |-> (b.lo * k) % Million]

BigLt(a, b) == a.hi < b.hi \/ (a.hi = b.hi /\ a.lo < b.lo)

\* the weight 1.0 of the inbound ray
WeightOne == [num |-> 1, den |-> [hi |-> 0, lo |-> 1]]

\* trace: THRESHOLD = 1e-12, as the denominator of 1/10^12
THRESHOLD == [hi |-> Million, lo |-> 0]

\* a reflected ray that keeps the weight of the ray it reflects
new_weight_kept(weight, reflection) == weight

\* trace: weight * surface.finish.reflection
new_weight(weight, reflection) ==
    LET n == weight.num * reflection
        g == GCD(n, ColourUnit)
    IN  [num |-> n \div g, den |-> BigMul(weight.den, ColourUnit \div g)]

\* a threshold test that every weight passes
above_threshold_always(w) == TRUE

\* trace: new_weight > THRESHOLD
above_threshold(w) == BigLt(w.den, BigMul(THRESHOLD, w.num))

\* a weighted colour in lowest terms
lowest_terms(c) ==
    LET g == GCD(GCD(GCD(c.num[1], c.num[2]), c.num[3]), c.den)
    IN  [num |-> <<c.num[1] \div g, c.num[2] \div g, c.num[3] \div g>>,
         den |-> c.den \div g]

\* trace: contrib * weight
weighted(contrib, weight) ==
    IF contrib = COLOUR_BLACK
    THEN [num |-> COLOUR_BLACK, den |-> 1]
    ELSE lowest_terms([num |-> CScale(contrib, weight.num),
                       den |-> IF weight.den.hi = 0 THEN weight.den.lo
                               ELSE CHOOSE x \in {} : TRUE])

\* the sum of two weighted colours
weighted_sum(a, b) ==
    lowest_terms([num |-> <<(a.num[1] * b.den) + (b.num[1] * a.den),
                            (a.num[2] * b.den) + (b.num[2] * a.den),
                            (a.num[3] * b.den) + (b.num[3] * a.den)>>,
                  den |-> a.den * b.den])

-----------------------------------------------------------------------------
(* Scene::lights as a function: the traversal of the state machine above,  *)
(* run to its end                                                          *)

RECURSIVE visit_children(_, _, _, _)
visit_children(v, ns, children, k) ==
    IF k > Len(children) THEN v
    ELSE visit_children(visit(v, ns, children[k]), ns, children, k + 1)

\* Object::accept
accept(v, ns, n) ==
    IF ns[n].kind = "Union"
    THEN pop_transform(visit_children(push_transform(v, UnionTransform(ns[n])),
                                      ns, ns[n].children, 1))
    ELSE v

RECURSIVE scene_visit(_, _, _, _)
scene_visit(v, ns, objs, k) ==
    IF k > Len(objs) THEN v
    ELSE scene_visit(accept(visit(v, ns, objs[k]), ns, objs[k]), ns, objs, k + 1)

scene_lights(ns, objs) == scene_visit(NewLightVisitor, ns, objs, 1).lights

-----------------------------------------------------------------------------
(* The scenes of the trace: lists of top-level objects out of a catalogue  *)
(* of walls, mirrors and lights on the z axis, and the rays from the point *)
(* (0, 0, Grid) along z and x                                              *)

\* a finish without specular highlight and with the given reflection
MirrorFinish(reflection) ==
    [DefaultFinish EXCEPT !.reflection = reflection, !.highlight_hardness = Inf]

\* the reflection coefficients 0.5 and 1.0
Half == ExactDiv(ColourUnit, 2)

Full == ColourUnit

\* the plane z = 2*Grid, facing the origin
FarWall == PlaneObject(vector(0, 0, -1), -(2 * Grid), DefaultFinish, COLOUR_WHITE)

FarWallRed == PlaneObject(vector(0, 0, -1), -(2 * Grid), MirrorFinish(0), COLOUR_RED)

FarMirror(reflection) ==
    PlaneObject(vector(0, 0, -1), -(2 * Grid), MirrorFinish(reflection), COLOUR_BLACK)

\* the plane z = 3*Grid, behind the far wall
BackWall == PlaneObject(vector(0, 0, -1), -(3 * Grid), DefaultFinish, COLOUR_WHITE)

\* the plane z = 0, facing the far wall
NearMirror(reflection) ==
    PlaneObject(vector(0, 0, 1), 0, MirrorFinish(reflection), COLOUR_BLACK)

\* the plane x = Grid, parallel to the rays along z
SideWall == PlaneObject(vector(1, 0, 0), Grid, DefaultFinish, COLOUR_WHITE)

TopLight == PointLightObject(point(0, 0, Grid), COLOUR_WHITE)

\* a union moved by (0, 0, -2*Grid) around one light at (0, 0, 3*Grid): the
\* light stands at (0, 0, Grid), in front of the far wall
Lamp == UnionObject(Some(for_translation(0, 0, -(2 * Grid))), <<0>>)

LampLight == PointLightObject(point(0, 0, 3 * Grid), COLOUR_WHITE)

Catalogue ==
    {FarWall, FarWallRed, BackWall, SideWall, NearMirror(Half), TopLight, Lamp}

\* the scene graph of a list of top-level objects: object k is node k, and
\* the light of a union at k is node Len(s) + k
SceneNodes(s) ==
    LET n == Len(s)
    IN  [i \in (1..n) \cup {n + k : k \in {j \in 1..n : s[j].kind = "Union"}} |->
            IF i > n THEN LampLight
            ELSE IF s[i].kind = "Union" THEN [s[i] EXCEPT !.children = <<n + i>>]
            ELSE s[i]]

Mirrors == {FarMirror(Half), FarMirror(Full), NearMirror(Half), NearMirror(Full)}

InboundRays ==
    {NewRay(point(0, 0, Grid), d) :
        d \in {vector(0, 0, 1), vector(0, 0, -1), vector(1, 0, 0)}}

-----------------------------------------------------------------------------
(* trace as a state machine: one step per iteration of the while loop *)

\* the first iteration of trace, for the scenes over a catalogue: the state
\* after rays.push_back((inbound_ray, 1.0))
TraceInitOver(catalogue, max) ==
    \E n \in 0..max : \E s \in [1..n -> catalogue] : \E r \in InboundRays :
        /\ nodes = SceneNodes(s)
        /\ objects = [k \in 1..n |-> k]
        /\ lights = scene_lights(SceneNodes(s), [k \in 1..n |-> k])
        /\ lpc = "done"
        /\ li = n + 1
        /\ lj = 0
        /\ transform_stack = NewLightVisitor.transform_stack
        /\ rays = <<[ray |-> r, weight |-> WeightOne]>>
        /\ contribs = <<>>
        /\ tpc = "loop"
        /\ pixel = [num |-> COLOUR_BLACK, den |-> 1]
        /\ folded = 0
        /\ last_ray = NoneOpt
        /\ last_ix = NoneOpt
        /\ RenderIdle
        /\ CallIdle

TraceInit == TraceInitOver(Catalogue, MaxObjects)

\* the scenes of mirrors only
MirrorInit == TraceInitOver(Mirrors, MaxMirrors)

\* contribs.push(c); contribs keeps the first MaxContribs contributions of a
\* trace that runs on
push_contrib(c) == IF Len(contribs) < MaxContribs THEN Append(contribs, c) ELSE contribs

\* one iteration of while !rays.is_empty(): the ray that hit nothing
TraceMiss(ray, weight) ==
    /\ rays' = Tail(rays)
    /\ contribs' = push_contrib(weighted(sky(ray), weight))

\* an iteration that enqueues the reflected ray twice
TraceHitTwice(ray, weight, ix) ==
    \E surface \in {surface_at(nodes[ix.obj], ix.point)} :
    \E w \in {new_weight(weight, surface.finish.reflection)} :
    \E r \in {[ray |-> reflect(ray, ix.point, surface.normal), weight |-> w]} :
        /\ rays' = IF surface.finish.reflection > 0 /\ above_threshold(w)
                   THEN Append(Append(Tail(rays), r), r)
                   ELSE Tail(rays)
        /\ contribs' = push_contrib(weighted(light_surface(ray.dir, ix.point, surface.normal, surface.colour, surface.finish, nodes, objects, lights), weight))

\* one iteration of while !rays.is_empty(): the ray that hit ix
TraceHit(ray, weight, ix) ==
    \E surface \in {surface_at(nodes[ix.obj], ix.point)} :
    \E colour \in {light_surface(ray.dir, ix.point, surface.normal, surface.colour,
                                 surface.finish, nodes, objects, lights)} :
    \E w \in {new_weight(weight, surface.finish.reflection)} :
        /\ rays' = IF surface.finish.reflection > 0 /\ above_threshold(w)
                   THEN Append(Tail(rays),
                               [ray |-> reflect(ray, ix.point, surface.normal),
                                weight |-> w])
                   ELSE Tail(rays)
        /\ contribs' = push_contrib(weighted(colour, weight))

\* one iteration of while !rays.is_empty()
TraceStep ==
    /\ tpc = "loop"
    /\ rays # <<>>
    /\ \E intersection \in {closest_intersecting_object(Head(rays).ray, nodes, objects)} :
           /\ IF IsSome(intersection)
              THEN TraceHit(Head(rays).ray, Head(rays).weight, Unwrap(intersection))
              ELSE TraceMiss(Head(rays).ray, Head(rays).weight)
           /\ last_ray' = Some(Head(rays).ray)
           /\ last_ix' = intersection
    /\ UNCHANGED <<lvars, rvars, cvars, tpc, pixel, folded>>

\* the loop is over; one iteration of
\* contribs.iter().fold(colour::BLACK, |sum, b| sum + (*b))
TraceFold ==
    /\ tpc = "loop"
    /\ rays = <<>>
    /\ folded < Len(contribs)
    /\ pixel' = weighted_sum(pixel, contribs[folded + 1])
    /\ folded' = folded + 1
    /\ UNCHANGED <<lvars, rvars, cvars, rays, contribs, tpc, last_ray, last_ix>>

\* the fold is over: the sum of the contributions is returned
TraceReturn ==
    /\ tpc = "loop"
    /\ rays = <<>>
    /\ folded >= Len(contribs)
    /\ tpc' = "done"
    /\ UNCHANGED <<lvars, rvars, cvars, rays, contribs, pixel, folded, last_ray, last_ix>>

TraceNext ==
    \/ TraceStep
    \/ TraceFold
    \/ TraceReturn

TraceSpec == TraceInit /\ [][TraceNext]_vars

\* trace runs on its own thread of the pool: it is never suspended for good
FairMirrorSpec == MirrorInit /\ [][TraceNext]_vars /\ WF_vars(TraceNext)

-----------------------------------------------------------------------------
(* render: the parallel pixel dispatch.                                    *)
(* The closure of rayon::scope runs on one worker of the pool; every task  *)
(* it spawns runs on another worker that is free, or on the closure's own  *)
(* worker once the closure has returned.  The channel is unbounded, and    *)
(* rx.recv() blocks its thread until a message is there; the channel is    *)
(* never disconnected, for the closure holds tx to its end.                *)
(* An isize is [hi, lo], the value hi * 2^32 + lo; the model has lo below  *)
(* 2^31, and the products it forms fit an isize.                           *)

\* isize as u32
as_u32(n) == n.lo

\* isize * isize, without overflow
isize_mul(a, b) ==
    IF a.hi # 0 /\ b.hi # 0 THEN CHOOSE x \in {} : TRUE
    ELSE [hi |-> (a.hi * b.lo) + (b.hi * a.lo), lo |-> a.lo * b.lo]

\* render: pixel_count = options.width * options.height
pixel_count == isize_mul(width, height)

\* one channel of pack_pixel without the .min(255.0), the cast wrapping
pack_channel_wraps(n, d) ==
    IF n < 0 THEN 0 ELSE ((255 * n) \div (d * ColourUnit)) % 256

\* one channel of pack_pixel: (255.0 * c).min(255.0) as u8, for the channel
\* n / (d * ColourUnit)
pack_channel(n, d) ==
    IF n < 0 THEN 0
    ELSE IF 255 * n >= 255 * (d * ColourUnit) THEN 255
    ELSE (255 * n) \div (d * ColourUnit)

pack_pixel(c) ==
    <<pack_channel(c.num[1], c.den), pack_channel(c.num[2], c.den),
      pack_channel(c.num[3], c.den), 255>>

\* a put_pixel that takes the coordinates in the other order
put_pixel_swapped(image, x, y, p) == [image EXCEPT ![<<y, x>>] = p]

\* RgbaImage::put_pixel
put_pixel(image, x, y, p) == [image EXCEPT ![<<x, y>>] = p]

\* RgbaImage::new: every pixel zero
NewImage(w, h) == [p \in (0..(w - 1)) \X (0..(h - 1)) |-> <<0, 0, 0, 0>>]

\* the colours trace returns in the model: 0.1 grey, and an orange whose red
\* is above 1.0
Dim == [num |-> <<2, 2, 2>>, den |-> 1]

Bright == [num |-> <<3 * ColourUnit, ColourUnit, 0>>, den |-> 2]

\* what trace does for a pixel: it returns a colour, or it panics (none)
Outcomes == {NoneOpt, Some(Dim), Some(Bright)}

\* the workers free to run tasks
FreeWorkers == IF rpc = "join" THEN nthreads ELSE nthreads - 1

RenderInit ==
    \E n \in 1..MaxThreads : \E w \in 1..MaxWidth : \E h \in 1..MaxHeight :
    \E whi \in {0, 1} : \E t \in [(0..(w - 1)) \X (0..(h - 1)) -> Outcomes] :
        /\ LightsIdle
        /\ TraceIdle
        /\ CallIdle
        /\ nthreads = n
        /\ width = [hi |-> whi, lo |-> w]
        /\ height = [hi |-> 0, lo |-> h]
        /\ traced = t
        /\ rpc = "spawn"
        /\ sx = 0
        /\ sy = 0
        /\ tasks = <<>>
        /\ chan = <<>>
        /\ received = <<>>
        /\ img = NewImage(w, h)

\* the task for pixel p is in state s
SetTask(p, s) == tasks' = [q \in DOMAIN tasks \cup {p} |-> IF q = p THEN s ELSE tasks[q]]

\* for y in 0..(height as u32), for x in 0..(width as u32): s.spawn(...)
Spawn ==
    /\ rpc = "spawn"
    /\ sy < as_u32(height)
    /\ sx < as_u32(width)
    /\ SetTask(<<sx, sy>>, "queued")
    /\ IF sx + 1 < as_u32(width)
       THEN sx' = sx + 1 /\ sy' = sy
       ELSE sx' = 0 /\ sy' = sy + 1
    /\ UNCHANGED <<lvars, tvars, cvars, nthreads, width, height, traced, rpc, chan, received, img>>

\* a closure that goes on to gather the pixels after the first row of spawns
BeginGatherAfterRow ==
    /\ rpc = "spawn"
    /\ sy >= 1
    /\ rpc' = "gather"
    /\ UNCHANGED <<lvars, tvars, cvars, nthreads, width, height, traced, sx, sy, tasks, chan,
                   received, img>>

\* the loops are over: the closure goes on to gather the pixels
BeginGather ==
    /\ rpc = "spawn"
    /\ sy >= as_u32(height)
    /\ rpc' = "gather"
    /\ UNCHANGED <<lvars, tvars, cvars, nthreads, width, height, traced, sx, sy, tasks, chan,
                   received, img>>

\* a free worker takes the task of pixel p
StartTask(p) ==
    /\ tasks[p] = "queued"
    /\ Cardinality({q \in DOMAIN tasks : tasks[q] = "running"}) < FreeWorkers
    /\ SetTask(p, "running")
    /\ UNCHANGED <<lvars, tvars, cvars, nthreads, width, height, traced, rpc, sx, sy, chan,
                   received, img>>

\* the task of pixel p: let c = trace(...); sender.send((x, y, c)).unwrap();
\* a panic of trace ends the task without a message
FinishTask(p) ==
    /\ tasks[p] = "running"
    /\ IF IsSome(traced[p])
       THEN /\ chan' = Append(chan, <<p[1], p[2], Unwrap(traced[p])>>)
            /\ SetTask(p, "sent")
       ELSE /\ chan' = chan
            /\ SetTask(p, "panicked")
    /\ UNCHANGED <<lvars, tvars, cvars, nthreads, width, height, traced, rpc, sx, sy,
                   received, img>>

\* for _ in 0..pixel_count: rx.recv().unwrap(), img.put_pixel(...)
Receive ==
    /\ rpc = "gather"
    /\ pixel_count.hi > 0 \/ Len(received) < pixel_count.lo
    /\ chan # <<>>
    /\ img' = put_pixel(img, Head(chan)[1], Head(chan)[2], pack_pixel(Head(chan)[3]))
    /\ received' = Append(received, <<Head(chan)[1], Head(chan)[2]>>)
    /\ chan' = Tail(chan)
    /\ UNCHANGED <<lvars, tvars, cvars, nthreads, width, height, traced, rpc, sx, sy, tasks>>

\* the gather loop is over: the closure returns img
EndGather ==
    /\ rpc = "gather"
    /\ pixel_count.hi = 0 /\ Len(received) >= pixel_count.lo
    /\ rpc' = "join"
    /\ UNCHANGED <<lvars, tvars, cvars, nthreads, width, height, traced, sx, sy, tasks, chan,
                   received, img>>

\* rayon::scope returns once every task has ended: it returns the image, or
\* resumes the panic of a task
ScopeReturns ==
    /\ rpc = "join"
    /\ \A p \in DOMAIN tasks : tasks[p] \in {"sent", "panicked"}
    /\ rpc' = IF \E p \in DOMAIN tasks : tasks[p] = "panicked" THEN "failed" ELSE "done"
    /\ UNCHANGED <<lvars, tvars, cvars, nthreads, width, height, traced, sx, sy, tasks, chan,
                   received, img>>

RenderNext ==
    \/ Spawn
    \/ BeginGather
    \/ \E p \in DOMAIN tasks : StartTask(p)
    \/ \E p \in DOMAIN tasks : FinishTask(p)
    \/ Receive
    \/ EndGather
    \/ ScopeReturns

RenderSpec == RenderInit /\ [][RenderNext]_vars

\* every thread of the pool keeps running
FairRenderSpec == RenderSpec /\ WF_vars(RenderNext)

-----------------------------------------------------------------------------
(* Scene::lights: what the traversal is to return *)

IsLight(n) == nodes[n].kind = "PointLight"

\* the nodes reachable from node n: n, its children, their children, ...
RECURSIVE ReachableFrom(_)
ReachableFrom(n) ==
    {n} \cup UNION {ReachableFrom(nodes[n].children[k]) : k \in 1..Len(nodes[n].children)}

Reachable == UNION {ReachableFrom(objects[k]) : k \in 1..Len(objects)}

\* the union that holds node n as a child, 0 for a top-level object
ParentOf(n) ==
    IF \E m \in DOMAIN nodes : \E k \in 1..Len(nodes[m].children) : nodes[m].children[k] = n
    THEN CHOOSE m \in DOMAIN nodes : \E k \in 1..Len(nodes[m].children) : nodes[m].children[k] = n
    ELSE 0

\* the transforms of the unions above node n, composed from the root down
RECURSIVE Accumulated(_)
Accumulated(n) ==
    IF ParentOf(n) = 0 THEN identity
    ELSE apply(Accumulated(ParentOf(n)), UnionTransform(nodes[ParentOf(n)]))

\* how many LightInfos name node n
TimesReturned(n) == Cardinality({k \in 1..Len(lights) : lights[k].light = n})

\* C7: when Scene::lights returns, every light reachable in the scene graph, at
\* any depth of union nesting, has exactly one LightInfo, and no LightInfo
\* names an object that is not a light.
C7_EveryReachableLightOnce ==
    lpc = "done" =>
        /\ \A n \in Reachable : IsLight(n) => TimesReturned(n) = 1
        /\ \A k \in 1..Len(lights) : IsLight(lights[k].light)

\* C8: the transform of every LightInfo is the composition, from the root down,
\* of the transforms of the unions above its light (the identity for a
\* top-level light); a union's transform is in no light outside that union.
C8_LightTransformIsAccumulated ==
    \A k \in 1..Len(lights) :
        lights[k].transform = Accumulated(lights[k].light)

\* a light inside a transformed union was returned with that transform, and a
\* later top-level light with the identity
C8_Witness ==
    /\ lpc = "done"
    /\ \E j, k \in 1..Len(lights) :
        /\ j < k
        /\ ParentOf(lights[j].light) # 0
        /\ lights[j].transform # identity
        /\ ParentOf(lights[k].light) = 0
        /\ lights[k].transform = identity

-----------------------------------------------------------------------------
(* trace: termination and the number of reflected rays *)

\* the objects with a surface
Surfaces == {n \in DOMAIN nodes : nodes[n].kind = "Plane"}

AllSurfacesHalf == \A n \in Surfaces : nodes[n].finish.reflection = Half

\* the reflected rays trace has pushed so far: every ray but the inbound one
\* is in the queue or has left a contribution
ReflectedRays == (Len(contribs) + Len(rays)) - 1

\* C5: trace terminates, its work queue becomes empty, for every scene, ray and
\* reflection coefficient in [0, 1], two facing mirrors of coefficient 1.0
\* included.
C5_TraceTerminates == (tpc = "loop") ~> (rays = <<>>)

\* C6: when every surface has reflection coefficient 0.5, trace pushes at most
\* 40 reflected rays for one inbound ray, and then its queue is empty.
C6_HalfReflectionBound ==
    /\ [](AllSurfacesHalf /\ tpc # "idle" => ReflectedRays <= 40)
    /\ (AllSurfacesHalf /\ tpc = "loop") ~> (rays = <<>>)

\* two facing mirrors of coefficient 0.5 reflected the ray until its weight
\* fell to the threshold: 39 reflected rays, and the queue is empty
C6_Witness ==
    /\ tpc = "done"
    /\ rays = <<>>
    /\ AllSurfacesHalf
    /\ Cardinality(Surfaces) >= 2
    /\ ReflectedRays = 39

-----------------------------------------------------------------------------
(* light_surface: where the lights shine from *)

\* the accumulated transform Scene::lights paired with light n
LightTransform(n) ==
    (CHOOSE k \in 1..Len(lights) : lights[k].light = n)

\* the scene with every light at the position its accumulated transform
\* moves it to
PlacedNodes ==
    [n \in DOMAIN nodes |->
        IF \E k \in 1..Len(lights) : lights[k].light = n
        THEN [nodes[n] EXCEPT
                 !.loc = MatVec(lights[LightTransform(n)].transform.matrix, @)]
        ELSE nodes[n]]

\* C9: light_surface lights a surface point from each light's position after
\* its accumulated transform: the colour of the point the last ray hit is the
\* colour the same lights give it from their transformed positions.
C9_LightsShineFromTransformedPosition ==
    IsSome(last_ray) /\ IsSome(last_ix) =>
        LET ray == Unwrap(last_ray)
            ix == Unwrap(last_ix)
            surface == surface_at(nodes[ix.obj], ix.point)
        IN  light_surface(ray.dir, ix.point, surface.normal, surface.colour,
                          surface.finish, nodes, objects, lights)
            = light_surface(ray.dir, ix.point, surface.normal, surface.colour,
                            surface.finish, PlacedNodes, objects, lights)

-----------------------------------------------------------------------------
(* closest_intersecting_object: the nearest hit *)

\* the point where object k of the list meets ray r, if Object::intersects
\* reports one
HitPoint(r, k) == object_intersects(nodes[objects[k]], r)

HitDistance(r, k) == distance(r.src, Unwrap(HitPoint(r, k)))

\* the objects of the list that intersect r: those with a point on the ray at
\* a finite distance (a plane parallel to the ray reports a point at infinity)
Intersecting(r) ==
    {k \in 1..Len(objects) : IsSome(HitPoint(r, k)) /\ IsFinite(HitDistance(r, k))}

\* C10: closest_intersecting_object returns nothing iff no object of the list
\* intersects the ray; otherwise it returns the object at the minimum distance,
\* and the first of the list among those at that distance.
C10_ClosestIsFirstNearest ==
    IsSome(last_ray) =>
        LET r == Unwrap(last_ray)
        IN  /\ last_ix = NoneOpt <=> Intersecting(r) = {}
            /\ IsSome(last_ix) =>
                  \E k \in Intersecting(r) :
                      /\ Unwrap(last_ix).obj = objects[k]
                      /\ Unwrap(last_ix).dist = HitDistance(r, k)
                      /\ Unwrap(last_ix).point = Unwrap(HitPoint(r, k))
                      /\ \A j \in Intersecting(r) :
                            /\ HitDistance(r, k) <= HitDistance(r, j)
                            /\ HitDistance(r, j) = HitDistance(r, k) => k <= j

\* an object further away, then two objects at the same nearest distance: the
\* first of the two was returned
C10_Witness ==
    /\ IsSome(last_ray)
    /\ IsSome(last_ix)
    /\ \E j, k, m \in Intersecting(Unwrap(last_ray)) :
          /\ m < j
          /\ j < k
          /\ HitDistance(Unwrap(last_ray), j) = HitDistance(Unwrap(last_ray), k)
          /\ HitDistance(Unwrap(last_ray), k) < HitDistance(Unwrap(last_ray), m)
          /\ Unwrap(last_ix).obj = objects[j]
          /\ nodes[objects[j]] # nodes[objects[k]]

-----------------------------------------------------------------------------
(* Claims about render *)

\* the pixels of the image: 0 <= x < width, 0 <= y < height, where the image
\* is narrow enough to list them
ImagePixels == (0..(width.lo - 1)) \X (0..(height.lo - 1))

NoTaskPanics == \A p \in DOMAIN traced : IsSome(traced[p])

SomeTaskPanicked == \E p \in DOMAIN tasks : tasks[p] = "panicked"

\* C1: for every positive width and height and every pool of one or more
\* threads, a render whose tasks do not panic eventually completes and
\* returns the image (stated for the widths that fit 32 bits).
C1_RenderCompletes ==
    (rpc = "spawn" /\ NoTaskPanics /\ width.hi = 0) ~> (rpc = "done")

\* C2: once the spawn loops are over, one task has been spawned for each of
\* the width * height pixels the closure waits for, and the closure leaves
\* the gather loop only after it has received them all.
C2_TasksMatchPixelCount ==
    rpc \in {"gather", "join", "done", "failed"} =>
        /\ pixel_count.hi = 0
        /\ Cardinality(DOMAIN tasks) = pixel_count.lo
        /\ DOMAIN tasks = ImagePixels
        /\ rpc # "gather" => Len(received) = pixel_count.lo

\* C3: a render one of whose tasks has panicked ends in failure: the closure
\* does not wait for ever, and the render does not return an image (stated
\* for a pool of two or more threads and the widths that fit 32 bits).
C3_PanicFailsRender ==
    /\ [](SomeTaskPanicked => rpc # "done")
    /\ (SomeTaskPanicked /\ nthreads >= 2 /\ width.hi = 0) ~> (rpc = "failed")

\* C4: when render completes, every pixel (x, y) of the image holds
\* pack_pixel of the colour traced for (x, y), whatever the order in which
\* the tasks ran and their results arrived.
C4_ImageHoldsTracedColours ==
    rpc = "done" =>
        /\ DOMAIN img = ImagePixels
        /\ \A p \in DOMAIN img :
               /\ IsSome(traced[p])
               /\ img[p] = pack_pixel(Unwrap(traced[p]))
               /\ Cardinality({k \in 1..Len(received) : received[k] = p}) = 1

\* a render of a 2 x 2 image completed, its results received in another
\* order than the tasks were spawned, with different colours at (1, 0) and
\* (0, 1)
C4_Witness ==
    /\ rpc = "done"
    /\ width.lo = 2
    /\ height.lo = 2
    /\ received = <<<<0, 1>>, <<1, 1>>, <<1, 0>>, <<0, 0>>>>
    /\ traced[<<1, 0>>] = Some(Bright)
    /\ traced[<<0, 1>>] = Some(Dim)
    /\ img[<<1, 0>>] = <<255, 127, 0, 255>>
    /\ img[<<0, 1>>] = <<25, 25, 25, 255>>

-----------------------------------------------------------------------------
(* Calls of one function: the state called holds the function and its      *)
(* arguments, and one step takes it to the value the function returns, or  *)
(* to its panic.                                                           *)

Returns(v) ==
    /\ cpc' = "returned"
    /\ ret' = v
    /\ UNCHANGED <<lvars, tvars, rvars, call>>

Panics ==
    /\ cpc' = "panicked"
    /\ ret' = ret
    /\ UNCHANGED <<lvars, tvars, rvars, call>>

Called(op) == cpc = "called" /\ call.op = op

\* the state of a call c that no scene is part of
CallOf(c) ==
    /\ LightsIdle
    /\ TraceIdle
    /\ RenderIdle
    /\ call = c
    /\ cpc = "called"
    /\ ret = <<>>

\* is_shadowed: the scenes of up to MaxOccluders objects that differ in place,
\* the rays of InboundRays as light rays, and lights nearer than, as far as,
\* and farther than the objects
Occluders == Catalogue \ {FarWallRed, Lamp}

LightDistances == {Grid \div 2, Grid, 2 * Grid, 3 * Grid}

ShadowInit ==
    \E n \in 0..MaxOccluders : \E s \in [1..n -> Occluders] :
    \E r \in InboundRays : \E d \in LightDistances :
        /\ nodes = SceneNodes(s)
        /\ objects = [k \in 1..n |-> k]
        /\ lights = scene_lights(SceneNodes(s), [k \in 1..n |-> k])
        /\ lpc = "done"
        /\ li = n + 1
        /\ lj = 0
        /\ transform_stack = NewLightVisitor.transform_stack
        /\ TraceIdle
        /\ RenderIdle
        /\ call = [op |-> "is_shadowed", light_ray |-> r, light_distance |-> d]
        /\ cpc = "called"
        /\ ret = <<>>

CallShadowed ==
    /\ Called("is_shadowed")
    /\ Returns(is_shadowed(call.light_ray, call.light_distance, nodes, objects))

-----------------------------------------------------------------------------
(* Primitive::intersects, called on one primitive with one ray *)

Axes ==
    {vector(1, 0, 0), vector(-1, 0, 0), vector(0, 1, 0), vector(0, -1, 0),
     vector(0, 0, 1), vector(0, 0, -1)}

\* a cube about the origin, a box whose three lower bounds differ, and a box
\* whose upper z is its lower y
Boxes ==
    {BoxObject(point(-Grid, -Grid, -Grid), point(Grid, Grid, Grid), NoneOpt),
     BoxObject(point(0, Grid, 2 * Grid), point(Grid, 3 * Grid, 5 * Grid), NoneOpt),
     BoxObject(point(0, 2 * Grid, 0), point(Grid, 3 * Grid, 2 * Grid), NoneOpt)}

\* ray origins before, on, inside and beyond the boxes
BoxRays ==
    {NewRay(point(x, y, z), d) :
        x \in {-(2 * Grid), 0, 2 * Grid}, y \in {0, 2 * Grid},
        z \in {-(2 * Grid), 0, 3 * Grid}, d \in Axes}

\* spheres in small lengths: Sphere::intersects squares them
Spheres ==
    {SphereObject(point(0, 0, 0), 5, NoneOpt), SphereObject(point(3, 0, -4), 10, NoneOpt)}

\* whether the model's sqrt has a value at the discriminant of the ray
HasRoot(obj, r) ==
    LET dist == between(r.src, obj.centre)
        b == dot(r.dir, dist)
        d2 == ((b * b) - dot(dist, dist)) + (obj.radius * obj.radius)
    IN  d2 < 0 \/ \E q \in 0..d2 : q * q = d2

\* ray origins outside, on and inside the spheres; rays that hit, graze and miss
SphereRays ==
    {NewRay(point(x, y, z), d) :
        x \in {-13, -5, 0, 3, 4, 7}, y \in {0, 3, 6}, z \in {-4, 0, 4, 13}, d \in Axes}

Planes == {o \in Catalogue : o.kind = "Plane"}

PlaneRays ==
    {NewRay(point(0, 0, z), d) : z \in {-Grid, 0, Grid, 2 * Grid}, d \in Axes}

IntersectsInit ==
    \E o \in Boxes \cup Spheres \cup Planes :
        \E r \in (CASE o.kind = "Box" -> BoxRays
                    [] o.kind = "Sphere" -> {q \in SphereRays : HasRoot(o, q)}
                    [] OTHER -> PlaneRays) :
            CallOf([op |-> "intersects", prim |-> o, ray |-> r])

CallIntersects ==
    /\ Called("intersects")
    /\ Returns(primitive_intersects(call.prim, call.ray))

-----------------------------------------------------------------------------
(* Box::normal, called on one box with one point *)

\* on one axis: the two bounds, a coordinate within EPSILON of the lower
\* bound, one between the bounds and one beyond the upper bound
Coordinates(lo, hi) == {lo, lo + (EPSILON \div 2), (lo + hi) \div 2, hi, hi + Grid}

BoxPoints(obj) ==
    {point(x, y, z) :
        x \in Coordinates(obj.lower[1], obj.upper[1]),
        y \in Coordinates(obj.lower[2], obj.upper[2]),
        z \in Coordinates(obj.lower[3], obj.upper[3])}

BoxNormalInit ==
    \E o \in Boxes : \E p \in BoxPoints(o) :
        CallOf([op |-> "box_normal", prim |-> o, pt |-> p])

CallBoxNormal ==
    /\ Called("box_normal")
    /\ IF box_normal_panics(call.prim, call.pt)
       THEN Panics
       ELSE Returns(box_normal(call.prim, call.pt))

-----------------------------------------------------------------------------
(* Transform: rotations, and a transform built step by step.  An angle is  *)
(* a whole number of quarter turns, where sin and cos are 0, 1 and -1.     *)

\* Angle::sin
sin(theta) == CASE theta % 4 = 0 -> 0 [] theta % 4 = 1 -> 1 [] theta % 4 = 2 -> 0 [] OTHER -> -1

\* Angle::cos
cos(theta) == CASE theta % 4 = 0 -> 1 [] theta % 4 = 1 -> 0 [] theta % 4 = 2 -> -1 [] OTHER -> 0

x_rotation_matrix(theta) == <<1, 0, 0, 0,
                              0, cos(theta), -sin(theta), 0,
                              0, sin(theta), cos(theta), 0,
                              0, 0, 0, 1>>

y_rotation_matrix(theta) == <<cos(theta), 0, sin(theta), 0,
                              0, 1, 0, 0,
                              -sin(theta), 0, cos(theta), 0,
                              0, 0, 0, 1>>

z_rotation_matrix(theta) == <<cos(theta), -sin(theta), 0, 0,
                              sin(theta), cos(theta), 0, 0,
                              0, 0, 1, 0,
                              0, 0, 0, 1>>

\* Transform::for_rotation
for_rotation(x, y, z) ==
    LET fwd_x == IF x # 0 THEN MatMul(IDENTITY, x_rotation_matrix(x)) ELSE IDENTITY
        inv_x == IF x # 0 THEN MatMul(x_rotation_matrix(-x), IDENTITY) ELSE IDENTITY
        fwd_y == IF y # 0 THEN MatMul(fwd_x, y_rotation_matrix(y)) ELSE fwd_x
        inv_y == IF y # 0 THEN MatMul(y_rotation_matrix(-y), inv_x) ELSE inv_x
        fwd_z == IF z # 0 THEN MatMul(fwd_y, z_rotation_matrix(z)) ELSE fwd_y
        inv_z == IF z # 0 THEN MatMul(z_rotation_matrix(-z), inv_y) ELSE inv_y
    IN  [matrix |-> fwd_z, inverse |-> inv_z]

\* Transform::translate
translate(self, x, y, z) == apply(self, for_translation(x, y, z))

\* Transform::rotate
rotate(self, x, y, z) == apply(self, for_rotation(x, y, z))

\* Transform::scale
scale(self, x, y, z) == apply(self, for_scale(x, y, z))

Translations == {<<Grid, 0, 0>>, <<0, 2 * Grid, -Grid>>}

Rotations == {<<1, 0, 0>>, <<0, 1, 0>>, <<0, 0, 1>>, <<1, 2, -1>>}

\* the factors whose reciprocal is a whole number
Scales == {<<-1, 1, 1>>, <<1, -1, -1>>}

Others == {rotate(for_translation(0, 0, Grid), 0, 1, 0), scale(for_rotation(0, 0, 1), 1, -1, 1)}

\* the transform under construction is call.t, after call.steps steps
TransformInit ==
    /\ LightsIdle /\ TraceIdle /\ RenderIdle
    /\ call = [op |-> "transform", t |-> identity, steps |-> 0]
    /\ cpc = "called"
    /\ ret = <<>>

Building == Called("transform") /\ call.steps < MaxSteps

Becomes(t) ==
    /\ call' = [call EXCEPT !.t = t, !.steps = @ + 1]
    /\ UNCHANGED <<lvars, tvars, rvars, cpc, ret>>

CallTranslate == Building /\ \E v \in Translations : Becomes(translate(call.t, v[1], v[2], v[3]))

CallRotate == Building /\ \E v \in Rotations : Becomes(rotate(call.t, v[1], v[2], v[3]))

CallScale == Building /\ \E v \in Scales : Becomes(scale(call.t, v[1], v[2], v[3]))

CallApply == Building /\ \E o \in Others : Becomes(apply(call.t, o))

-----------------------------------------------------------------------------
(* Bounding boxes.  An AxisAlignedBox is [lower, upper]; a scene graph ns  *)
(* is a sequence of objects, the children of a union being indices of it.  *)

AxisAlignedBox(lower, upper) == [lower |-> lower, upper |-> upper]

\* AxisAlignedBox::default
aabb_default == AxisAlignedBox(point(0, 0, 0), point(0, 0, 0))

\* AxisAlignedBox::union
aabb_union(self, other) ==
    AxisAlignedBox(
        point(FMin(self.lower[1], other.lower[1]), FMin(self.lower[2], other.lower[2]),
              FMin(self.lower[3], other.lower[3])),
        point(FMax(self.upper[1], other.upper[1]), FMax(self.upper[2], other.upper[2]),
              FMax(self.upper[3], other.upper[3])))

\* Sphere::bounding_box
sphere_bounding_box(obj) ==
    LET x == sort(FSub(obj.centre[1], obj.radius), FAdd(obj.centre[1], obj.radius))
        y == sort(FSub(obj.centre[2], obj.radius), FAdd(obj.centre[2], obj.radius))
        z == sort(FSub(obj.centre[3], obj.radius), FAdd(obj.centre[3], obj.radius))
    IN  AxisAlignedBox(point(x[1], y[1], z[1]), point(x[2], y[2], z[2]))

\* Plane::bounding_box
plane_bounding_box(obj) ==
    AxisAlignedBox(point(NegInf, NegInf, NegInf), point(Inf, Inf, Inf))

\* PointLight::bounding_box
point_light_bounding_box(obj) == AxisAlignedBox(point(0, 0, 0), point(0, 0, 0))

RECURSIVE object_bounding_box(_, _)

\* Union::bounding_box: the fold over the children from k on
RECURSIVE union_fold(_, _, _, _)
union_fold(ns, children, k, acc) ==
    IF k > Len(children) THEN acc
    ELSE union_fold(ns, children, k + 1,
                    aabb_union(acc, object_bounding_box(ns, ns[children[k]])))

\* Union::bounding_box
union_bounding_box(ns, obj) == union_fold(ns, obj.children, 1, aabb_default)

\* Primitive::bounding_box
primitive_bounding_box(ns, obj) ==
    CASE obj.kind = "Sphere" -> sphere_bounding_box(obj)
      [] obj.kind = "Plane" -> plane_bounding_box(obj)
      [] obj.kind = "PointLight" -> point_light_bounding_box(obj)
      [] obj.kind = "Union" -> union_bounding_box(ns, obj)

\* Object::bounding_box: the eight corners of the inner box
corners(l, u) ==
    <<point(l[1], l[2], l[3]), point(u[1], l[2], l[3]),
      point(u[1], u[2], l[3]), point(l[1], u[2], l[3]),
      point(l[1], l[2], u[3]), point(u[1], l[2], u[3]),
      point(u[1], u[2], u[3]), point(l[1], u[2], u[3])>>

\* Object::bounding_box: the fold over the points from k on
RECURSIVE envelope(_, _, _, _)
envelope(points, k, min, max) ==
    IF k > Len(points) THEN AxisAlignedBox(min, max)
    ELSE envelope(points, k + 1,
                  point(FMin(min[1], points[k][1]), FMin(min[2], points[k][2]),
                        FMin(min[3], points[k][3])),
                  point(FMax(max[1], points[k][1]), FMax(max[2], points[k][2]),
                        FMax(max[3], points[k][3])))

\* Object::bounding_box from the two transformed corners of the inner box
bounding_box_of_two_corners(ns, obj) ==
    LET b == primitive_bounding_box(ns, obj)
    IN  IF ~IsSome(obj.transform) THEN b
        ELSE LET tl == MatVec(Unwrap(obj.transform).matrix, b.lower)
                 tu == MatVec(Unwrap(obj.transform).matrix, b.upper)
                 x == sort(tl[1], tu[1])
                 y == sort(tl[2], tu[2])
                 z == sort(tl[3], tu[3])
             IN  AxisAlignedBox(point(x[1], y[1], z[1]), point(x[2], y[2], z[2]))

\* Object::bounding_box
object_bounding_box(ns, obj) ==
    LET inner_bb == primitive_bounding_box(ns, obj)
    IN  IF ~IsSome(obj.transform) THEN inner_bb
        ELSE LET c == corners(inner_bb.lower, inner_bb.upper)
                 points == [k \in 1..8 |-> MatVec(Unwrap(obj.transform).matrix, c[k])]
             IN  envelope(points, 2, points[1], points[1])

\* a Transform that neither rotate nor scale of the model builds: x - y for
\* x, with its inverse
Shear ==
    [matrix |-> <<1, -1, 0, 0,  0, 1, 0, 0,  0, 0, 1, 0,  0, 0, 0, 1>>,
     inverse |-> <<1, 1, 0, 0,  0, 1, 0, 0,  0, 0, 1, 0,  0, 0, 0, 1>>]

\* a Transform that turns the x-z plane by a sixth of a turn on a skew grid
Skew ==
    [matrix |-> <<1, 0, -1, 0,  0, 1, 0, 0,  1, 0, 0, 0,  0, 0, 0, 1>>,
     inverse |-> <<0, 0, 1, 0,  0, 1, 0, 0,  -1, 0, 1, 0,  0, 0, 0, 1>>]

ObjectTransforms ==
    {NoneOpt, Some(identity), Some(for_translation(Grid, 0, -Grid)),
     Some(for_rotation(0, 1, 0)), Some(for_rotation(1, 0, 2)), Some(for_scale(-1, 1, -1)),
     Some(rotate(for_translation(0, Grid, 0), 0, 0, 1)), Some(Shear), Some(Skew),
     Some(translate(Shear, 0, 0, Grid))}

\* the spheres of the model, each under each of the transforms
Solids ==
    {[s EXCEPT !.transform = t] : s \in Spheres, t \in ObjectTransforms}

BoundingBoxInit ==
    \E o \in Solids : CallOf([op |-> "bounding_box", ns |-> <<o>>, node |-> 1])

CallBoundingBox ==
    /\ Called("bounding_box")
    /\ Returns(object_bounding_box(call.ns, call.ns[call.node]))

-----------------------------------------------------------------------------
(* Union::bounding_box, called on a union of one to MaxChildren solids *)

\* the children: the sphere about the origin under each of the transforms
Children == {s \in Solids : s.centre = point(0, 0, 0)}

UnionBoxInit ==
    \E n \in 1..MaxChildren : \E c \in [1..n -> Children] :
        CallOf([op |-> "union_bounding_box",
                ns |-> <<UnionObject(NoneOpt, [k \in 1..n |-> k + 1])>> \o c,
                node |-> 1])

CallUnionBoundingBox ==
    /\ Called("union_bounding_box")
    /\ Returns(union_bounding_box(call.ns, call.ns[call.node]))

-----------------------------------------------------------------------------
(* Object::intersects, Object::surface_at and Object::bounding_box, called  *)
(* on one object without a transform, with the identity and with others    *)

\* transforms that keep the directions of the model along the axes
RigidTransforms ==
    {NoneOpt, Some(identity), Some(for_translation(Grid, 0, -Grid)),
     Some(for_rotation(0, 1, 0)), Some(rotate(for_translation(0, Grid, 0), 0, 0, 1)),
     Some(for_scale(-1, 1, -1))}

\* the same in the small lengths of the spheres
SmallTransforms ==
    {NoneOpt, Some(identity), Some(for_translation(3, 0, -4)),
     Some(for_rotation(0, 1, 0)), Some(rotate(for_translation(0, 4, 0), 0, 0, 1)),
     Some(for_scale(-1, 1, -1))}

\* the ray as Object::intersects hands it to the primitive
local_ray(obj, r) ==
    IF IsSome(obj.transform) THEN ray_transform(r, Unwrap(obj.transform).inverse) ELSE r

Shapes ==
    {[o EXCEPT !.transform = t] : o \in Planes \cup Boxes, t \in RigidTransforms}
        \cup {[o EXCEPT !.transform = t] : o \in Spheres, t \in SmallTransforms}

RaysAt(o) ==
    CASE o.kind = "Box" -> BoxRays
      [] o.kind = "Sphere" -> {q \in SphereRays : HasRoot(o, local_ray(o, q))}
      [] OTHER -> PlaneRays

ObjectIntersectsInit ==
    \E o \in Shapes : \E r \in RaysAt(o) :
        CallOf([op |-> "object_intersects", obj |-> o, ray |-> r])

CallObjectIntersects ==
    /\ Called("object_intersects")
    /\ Returns(object_intersects(call.obj, call.ray))

\* points of the surface: of a sphere, the six ends of its axes moved by the
\* transform; of a plane, points of the plane z = 2 * Grid
SurfacePoints(o) ==
    IF o.kind = "Sphere"
    THEN {IF IsSome(o.transform)
          THEN MatVec(Unwrap(o.transform).matrix, VAdd(o.centre, VScale(a, o.radius)))
          ELSE VAdd(o.centre, VScale(a, o.radius)) : a \in Axes}
    ELSE {point(0, 0, 2 * Grid), point(Grid, -Grid, 2 * Grid)}

SurfaceAtInit ==
    \E o \in {s \in Shapes : s.kind # "Box"} : \E p \in SurfacePoints(o) :
        CallOf([op |-> "surface_at", obj |-> o, pt |-> p])

CallSurfaceAt ==
    /\ Called("surface_at")
    /\ Returns(surface_at(call.obj, call.pt))

\* Object::bounding_box of a plane or a sphere
BoxOfShapeInit ==
    \E o \in {s \in Shapes : s.kind # "Box"} :
        CallOf([op |-> "bounding_box", ns |-> <<o>>, node |-> 1])

-----------------------------------------------------------------------------
(* The camera and the ray of a pixel.  The rays of a camera are not along  *)
(* the axes, so this part counts in thousandths: a number is the nearest   *)
(* multiple of 1/Thousand towards zero, and a direction has length         *)
(* Thousand.  tan(hfov/2) and tan(vfov/2) are known to the thousandth: the *)
(* call holds one of the two multiples that enclose each.                  *)

Thousand == 1000

\* a * b and a / b in thousandths
MilliMul(a, b) == Sign(a) * Sign(b) * ((Abs(a) * Abs(b)) \div Thousand)

MilliDiv(a, b) == Sign(a) * Sign(b) * ((Abs(a) * Thousand) \div Abs(b))

\* f64::sqrt in thousandths
MilliSqrt(a) ==
    CHOOSE q \in 0..(10 * Thousand) : q * q <= a * Thousand /\ a * Thousand < (q + 1) * (q + 1)

MilliDot(a, b) == MilliMul(a[1], b[1]) + MilliMul(a[2], b[2]) + MilliMul(a[3], b[3])

MilliScale(v, k) == <<MilliMul(v[1], k), MilliMul(v[2], k), MilliMul(v[3], k)>>

\* Vector / isize and u32 * Vector
Over(v, n) == <<MilliDiv(v[1], n * Thousand), MilliDiv(v[2], n * Thousand), MilliDiv(v[3], n * Thousand)>>

Times(n, v) == <<n * v[1], n * v[2], n * v[3]>>

\* Vector::normalize in thousandths
MilliNormalize(v) ==
    LET len == MilliSqrt(MilliDot(v, v))
    IN  <<MilliDiv(v[1], len), MilliDiv(v[2], len), MilliDiv(v[3], len)>>

\* Camera::default, moved by with_loc; hfov and vfov in degrees
Camera(loc) ==
    [loc |-> loc, dir |-> <<0, 0, Thousand>>, up |-> <<0, Thousand, 0>>,
     right |-> <<Thousand, 0, 0>>, hfov |-> 39, vfov |-> 27]

\* (fov / 2).tan(): the thousandths below and above tan(19.5 degrees) =
\* 0.35412 and tan(13.5 degrees) = 0.24008
half_tan(fov) == IF fov = 39 THEN {354, 355} ELSE {240, 241}

\* Camera::projector, with the two tangents
projector(self, w, h, tan_h, tan_v) ==
    LET plane_centre == VAdd(self.loc, self.dir)
        width_v == MilliScale(self.right, tan_h)
        centre_left == VSub(plane_centre, width_v)
        dx == Over(Times(2, width_v), w)
        height_v == MilliScale(self.up, tan_v)
        top_left == VAdd(centre_left, height_v)
        dy == Over(Times(2, Times(-1, height_v)), h)
    IN  [topleft |-> top_left, dx |-> dx, dy |-> dy, src |-> self.loc]

\* Projection::ray_for; Ray::new normalizes once more
ray_for(self, x, y) ==
    LET pixel_pos == VAdd(VAdd(self.topleft, Times(x, self.dx)), Times(y, self.dy))
        v == MilliNormalize(between(self.src, pixel_pos))
    IN  [src |-> self.src, dir |-> MilliNormalize(v)]

\* Sphere::intersects in thousandths
milli_sphere_intersects(obj, r) ==
    LET dist == between(r.src, obj.centre)
        b == MilliDot(r.dir, dist)
        d2 == (MilliMul(b, b) - MilliDot(dist, dist)) + MilliMul(obj.radius, obj.radius)
    IN  IF d2 < 0 THEN NoneOpt
        ELSE LET d == MilliSqrt(d2)
                 t1 == b - d
                 t2 == b + d
             IN  IF t2 > 0 THEN Some(IF t1 > 0 THEN t1 ELSE t2) ELSE NoneOpt

\* the scene of the end-to-end test: the sphere of radius 1 about the origin
\* and the camera at (0, 0, -5)
UnitSphere == SphereObject(point(0, 0, 0), Thousand, NoneOpt)

TestCamera == Camera(point(0, 0, -(5 * Thousand)))

\* the image sizes and the pixels of the model
ImageSizes == {1, 2, 3, 4}

\* render, for one pixel: the ray of the pixel and the nearest hit of it
PixelInit ==
    \E w \in ImageSizes : \E h \in ImageSizes :
    \E x \in 0..(w - 1) : \E y \in 0..(h - 1) :
    \E th \in half_tan(TestCamera.hfov) : \E tv \in half_tan(TestCamera.vfov) :
        CallOf([op |-> "pixel", camera |-> TestCamera, sphere |-> UnitSphere,
                width |-> w, height |-> h, x |-> x, y |-> y, tan_h |-> th, tan_v |-> tv])

\* the pixel's colour where the ray meets nothing is the sky's
CallPixel ==
    /\ Called("pixel")
    /\ \E ray \in {ray_for(projector(call.camera, call.width, call.height,
                                    call.tan_h, call.tan_v), call.x, call.y)} :
       \E hit \in {milli_sphere_intersects(call.sphere, ray)} :
            Returns([ray |-> ray, hit |-> hit,
                     sky |-> IF IsSome(hit) THEN NoneOpt ELSE Some(sky(ray))])

-----------------------------------------------------------------------------
(* pack_pixel, called on one colour *)

\* numerators of a channel: below 0, 0, between 0 and 1, 1 and above 1 for
\* the denominator 1
ChannelNumerators == {-ColourUnit, 0, 1, 7, ColourUnit, 3 * ColourUnit}

ChannelDenominators == {1, 3}

PackInit ==
    \E r \in ChannelNumerators : \E g \in ChannelNumerators : \E b \in ChannelNumerators :
    \E d \in ChannelDenominators :
        CallOf([op |-> "pack_pixel", c |-> [num |-> <<r, g, b>>, den |-> d]])

CallPackPixel ==
    /\ Called("pack_pixel")
    /\ Returns(pack_pixel(call.c))

-----------------------------------------------------------------------------
(* The LightVisitor called outside a traversal: pop_transform on a stack   *)
(* of depth 1 or 2, and visit on the visitors that a pop leaves behind.    *)

PoppedTransforms == {for_translation(Grid, 0, 0), for_scale(-1, 1, 1)}

Visitors ==
    {[transform_stack |-> s, lights |-> <<>>] :
        s \in {<<identity>>} \cup {<<identity, t>> : t \in PoppedTransforms}}

Visited == <<LampLight, FarWall>>

PopInit == \E v \in Visitors : CallOf([op |-> "pop_transform", v |-> v])

\* LightVisitor::pop_transform: Vec::pop, whose result is dropped
CallPopTransform == Called("pop_transform") /\ Returns(pop_transform(call.v))

VisitInit ==
    \E v \in Visitors, n \in DOMAIN Visited :
        CallOf([op |-> "visit", v |-> pop_transform(v), n |-> n])

\* LightVisitor::visit: last().unwrap() panics on the empty stack, and is
\* reached only for a light
CallVisit ==
    /\ Called("visit")
    /\ IF IsSome(as_light(Visited[call.n])) /\ call.v.transform_stack = <<>>
       THEN Panics
       ELSE Returns(visit(call.v, Visited, call.n))

-----------------------------------------------------------------------------
(* trace over the scenes of up to MaxMirrors objects out of the walls, the *)
(* lights and the mirrors: chains of reflected rays that end on a wall, in *)
(* the sky, or below the threshold                                         *)

ChainInit == TraceInitOver(Catalogue \cup Mirrors, MaxMirrors)

ChainSpec == ChainInit /\ [][TraceNext]_vars

-----------------------------------------------------------------------------
(* light_surface, called for the point of the far wall on the z axis, seen *)
(* along z, in the scenes of up to MaxObjects objects out of: the far      *)
(* wall, a screen in front of it, a light before the screen, a light       *)
(* between the screen and the wall, and a light behind the wall            *)

Screen == PlaneObject(vector(0, 0, -1), -ExactDiv(3 * Grid, 2), DefaultFinish, COLOUR_WHITE)

NearLight == PointLightObject(point(0, 0, ExactDiv(7 * Grid, 4)), COLOUR_WHITE)

BehindLight == PointLightObject(point(0, 0, 3 * Grid), COLOUR_WHITE)

LitCatalogue == {FarWall, Screen, TopLight, NearLight, BehindLight}

SurfaceColours == {COLOUR_WHITE, COLOUR_RED}

LightSurfaceInit ==
    \E n \in 0..MaxObjects : \E s \in [1..n -> LitCatalogue] : \E c \in SurfaceColours :
        /\ nodes = SceneNodes(s)
        /\ objects = [k \in 1..n |-> k]
        /\ lights = scene_lights(SceneNodes(s), [k \in 1..n |-> k])
        /\ lpc = "done"
        /\ li = n + 1
        /\ lj = 0
        /\ transform_stack = NewLightVisitor.transform_stack
        /\ TraceIdle
        /\ RenderIdle
        /\ call = [op |-> "light_surface", viewdir |-> vector(0, 0, 1),
                   surface_pt |-> point(0, 0, 2 * Grid), surface_normal |-> FarWall.normal,
                   surface_colour |-> c, surface_finish |-> FarWall.finish]
        /\ cpc = "called"
        /\ ret = <<>>

CallLightSurface ==
    /\ Called("light_surface")
    /\ Returns(light_surface(call.viewdir, call.surface_pt, call.surface_normal,
                             call.surface_colour, call.surface_finish,
                             nodes, objects, lights))

-----------------------------------------------------------------------------
(* closest_intersecting_object and is_shadowed in scenes with unions       *)
(* around a surface: up to MaxOccluders top-level objects out of the far   *)
(* wall, a light, and unions with and without a transform, every union     *)
(* with one child, a plane or a light                                      *)

PlainUnion == UnionObject(NoneOpt, <<0>>)

NestedCatalogue == {FarWall, TopLight, Lamp, PlainUnion}

\* the plane z = 3/2 Grid and the light of the lamp
NestedChildren == {PlaneObject(vector(0, 0, -1), -ExactDiv(3 * Grid, 2), DefaultFinish, COLOUR_WHITE), LampLight}

\* the scene graph of the top-level objects s: object k is node k, and the
\* child of a union at k is node Len(s) + k
NestedNodes(s, child) ==
    LET n == Len(s)
    IN  [i \in (1..n) \cup {n + k : k \in {j \in 1..n : s[j].kind = "Union"}} |->
            IF i > n THEN child
            ELSE IF s[i].kind = "Union" THEN [s[i] EXCEPT !.children = <<n + i>>]
            ELSE s[i]]

NestedCalls ==
    {[op |-> "closest_intersecting_object", r |-> r] : r \in InboundRays}
        \cup {[op |-> "is_shadowed", light_ray |-> r, light_distance |-> d] : r \in InboundRays, d \in LightDistances}

NestedInit ==
    \E n \in 0..MaxOccluders : \E s \in [1..n -> NestedCatalogue] :
    \E child \in NestedChildren : \E c \in NestedCalls :
        /\ nodes = NestedNodes(s, child)
        /\ objects = [k \in 1..n |-> k]
        /\ lights = scene_lights(NestedNodes(s, child), [k \in 1..n |-> k])
        /\ lpc = "done"
        /\ li = n + 1
        /\ lj = 0
        /\ transform_stack = NewLightVisitor.transform_stack
        /\ TraceIdle
        /\ RenderIdle
        /\ call = c
        /\ cpc = "called"
        /\ ret = <<>>

CallClosest ==
    /\ Called("closest_intersecting_object")
    /\ Returns(closest_intersecting_object(call.r, nodes, objects))

-----------------------------------------------------------------------------
(* The functions of the primitives, each called once on its arguments *)

CallInit ==
    \/ ShadowInit
    \/ IntersectsInit
    \/ BoxNormalInit
    \/ TransformInit
    \/ BoundingBoxInit
    \/ UnionBoxInit
    \/ ObjectIntersectsInit
    \/ SurfaceAtInit
    \/ BoxOfShapeInit
    \/ PixelInit
    \/ PackInit
    \/ PopInit
    \/ VisitInit
    \/ LightSurfaceInit
    \/ NestedInit

CallNext ==
    \/ CallShadowed
    \/ CallIntersects
    \/ CallBoxNormal
    \/ CallTranslate
    \/ CallRotate
    \/ CallScale
    \/ CallApply
    \/ CallBoundingBox
    \/ CallUnionBoundingBox
    \/ CallObjectIntersects
    \/ CallSurfaceAt
    \/ CallPixel
    \/ CallPackPixel
    \/ CallPopTransform
    \/ CallVisit
    \/ CallLightSurface
    \/ CallClosest

CallSpec == CallInit /\ [][CallNext]_vars

-----------------------------------------------------------------------------
(* Claims about is_shadowed *)

\* C11: is_shadowed is true iff some object meets the light ray at a distance
\* strictly less than the distance of the light: an object at the distance of
\* the light or beyond it casts no shadow, and neither does an empty scene.
C11_ShadowedIffNearerHit ==
    (cpc = "returned" /\ call.op = "is_shadowed") =>
        (ret <=> \E k \in Intersecting(call.light_ray) :
                     HitDistance(call.light_ray, k) < call.light_distance)

\* a scene of two objects on the ray, the nearer one exactly as far as the
\* light: not shadowed
C11_Witness ==
    /\ cpc = "returned"
    /\ call.op = "is_shadowed"
    /\ Cardinality(Intersecting(call.light_ray)) = 2
    /\ \E k \in Intersecting(call.light_ray) :
           HitDistance(call.light_ray, k) = call.light_distance
    /\ \E k \in Intersecting(call.light_ray) :
           HitDistance(call.light_ray, k) > call.light_distance
    /\ ret = FALSE

\* Whether the ray's origin is inside the box or on its surface
InsideBox(obj, p) ==
    \A i \in 1..3 : obj.lower[i] <= p[i] /\ p[i] <= obj.upper[i]

\* C12: for a Sphere, a Plane and a Box and every ray, intersects returns
\* either nothing or a strictly positive distance, also when the origin of the
\* ray is inside the shape.
C12_IntersectsPositive ==
    (cpc = "returned" /\ call.op = "intersects" /\ IsSome(ret)) => FGt(Unwrap(ret), 0)

\* C12 for the Sphere and the Plane alone
C12_SpherePlanePositive ==
    (cpc = "returned" /\ call.op = "intersects" /\ call.prim.kind # "Box" /\ IsSome(ret))
        => FGt(Unwrap(ret), 0)

\* C12: a ray from inside a box got the entry distance behind its origin
C12_NegativeFromInside ==
    /\ cpc = "returned"
    /\ call.op = "intersects"
    /\ call.prim.kind = "Box"
    /\ InsideBox(call.prim, call.ray.src)
    /\ IsSome(ret)
    /\ Unwrap(ret) < 0

\* The six faces of a box: the axis, the bound and the outward normal
Faces(obj) ==
    {[axis |-> 1, at |-> obj.lower[1], normal |-> vector(-1, 0, 0)],
     [axis |-> 1, at |-> obj.upper[1], normal |-> vector(1, 0, 0)],
     [axis |-> 2, at |-> obj.lower[2], normal |-> vector(0, -1, 0)],
     [axis |-> 2, at |-> obj.upper[2], normal |-> vector(0, 1, 0)],
     [axis |-> 3, at |-> obj.lower[3], normal |-> vector(0, 0, -1)],
     [axis |-> 3, at |-> obj.upper[3], normal |-> vector(0, 0, 1)]}

\* p is on the face f of the box, up to the tolerance eps on each axis
OnFace(obj, f, p, eps) ==
    /\ Abs(p[f.axis] - f.at) <= eps
    /\ \A i \in 1..3 : obj.lower[i] - eps <= p[i] /\ p[i] <= obj.upper[i] + eps

FacesAt(obj, p, eps) == {f \in Faces(obj) : OnFace(obj, f, p, eps)}

BoxNormalEnded == cpc \in {"returned", "panicked"} /\ call.op = "box_normal"

\* C13: for every box and every point on one of its six faces, Box::normal
\* returns the outward unit normal of that face (of one of the faces, for a
\* point that is on several or within the tolerance of another).
C13_NormalOfFace ==
    (BoxNormalEnded /\ FacesAt(call.prim, call.pt, 0) # {}) =>
        /\ cpc = "returned"
        /\ \E f \in FacesAt(call.prim, call.pt, EPSILON - 1) : ret = f.normal

\* C13 for the boxes whose lower y is their lower z, and whose upper z is not
C13_NormalOfFaceOfCube ==
    (/\ BoxNormalEnded
     /\ FacesAt(call.prim, call.pt, 0) # {}
     /\ call.prim.lower[2] = call.prim.lower[3]
     /\ call.prim.upper[3] # call.prim.lower[2]) =>
        /\ cpc = "returned"
        /\ \E f \in FacesAt(call.prim, call.pt, EPSILON - 1) : ret = f.normal

\* C13: a point inside the lower-z face alone, for which Box::normal panicked
C13_PanicOnLowerZ ==
    /\ cpc = "panicked"
    /\ call.op = "box_normal"
    /\ Cardinality(FacesAt(call.prim, call.pt, 0)) = 1
    /\ \E f \in FacesAt(call.prim, call.pt, 0) : f.normal = vector(0, 0, -1)

\* C13: a point inside the upper-z face alone, for which Box::normal
\* returned -Z
C13_WrongOnUpperZ ==
    /\ cpc = "returned"
    /\ call.op = "box_normal"
    /\ FacesAt(call.prim, call.pt, 0) = {[axis |-> 3, at |-> call.prim.upper[3], normal |-> vector(0, 0, 1)]}
    /\ ret = vector(0, 0, -1)

\* C14: Box::normal panics for every point that is not on the surface of the
\* box (not within the tolerance of any face), also for a point in the plane
\* of a face outside the extents of the face; it returns no normal for it.
C14_PanicsOffSurface ==
    (BoxNormalEnded /\ FacesAt(call.prim, call.pt, EPSILON - 1) = {}) => cpc = "panicked"

\* C14 for the points that are in the plane of no face
C14_PanicsOffEveryPlane ==
    (/\ BoxNormalEnded
     /\ \A f \in Faces(call.prim) : Abs(call.pt[f.axis] - f.at) >= EPSILON
     /\ call.prim.lower[2] = call.prim.lower[3]) => cpc = "panicked"

\* C14: a point in the plane of a face, beyond the extents of the face, for
\* which Box::normal returned the normal of that face
C14_NormalOffSurface ==
    /\ cpc = "returned"
    /\ call.op = "box_normal"
    /\ FacesAt(call.prim, call.pt, EPSILON - 1) = {}
    /\ \E f \in Faces(call.prim) : call.pt[f.axis] = f.at /\ ret = f.normal
    /\ \E i \in 1..3 : call.pt[i] > call.prim.upper[i] + EPSILON

RoundTripPoints ==
    {point(0, 0, 0), point(Grid, 2 * Grid, 3 * Grid), point(-Grid, 0, 5 * Grid)}

Least(S) == CHOOSE m \in S : \A s \in S : m <= s

Greatest(S) == CHOOSE m \in S : \A s \in S : s <= m

\* The local box of the object of the call, and the set of its eight corners
\* moved by the matrix of the object's transform
InnerBox == primitive_bounding_box(call.ns, call.ns[call.node])

MovedCorners ==
    {MatVec(Unwrap(call.ns[call.node].transform).matrix, point(x, y, z)) :
        x \in {InnerBox.lower[1], InnerBox.upper[1]},
        y \in {InnerBox.lower[2], InnerBox.upper[2]},
        z \in {InnerBox.lower[3], InnerBox.upper[3]}}

BoundingBoxOfSolid ==
    /\ cpc = "returned"
    /\ call.op = "bounding_box"
    /\ call.ns[call.node].kind = "Sphere"

\* C16: with a transform, Object::bounding_box has on each axis the least and
\* the greatest coordinate of the eight forward-transformed corners of the
\* primitive's box; without a transform it is the primitive's box.
C16_EnvelopeOfEightCorners ==
    BoundingBoxOfSolid =>
        IF IsSome(call.ns[call.node].transform)
        THEN \A i \in 1..3 :
                /\ ret.lower[i] = Least({c[i] : c \in MovedCorners})
                /\ ret.upper[i] = Greatest({c[i] : c \in MovedCorners})
        ELSE ret = InnerBox

\* C16: a transformed object whose box is wider than the box of the two
\* transformed extreme corners
C16_Witness ==
    /\ BoundingBoxOfSolid
    /\ IsSome(call.ns[call.node].transform)
    /\ LET m == Unwrap(call.ns[call.node].transform).matrix
           tl == MatVec(m, InnerBox.lower)
           tu == MatVec(m, InnerBox.upper)
       IN  \E i \in 1..3 : ret.lower[i] < tl[i] /\ ret.lower[i] < tu[i]

\* The bounding boxes of the children of the union of the call
ChildBoxes ==
    {object_bounding_box(call.ns, call.ns[c]) :
        c \in {call.ns[call.node].children[k] : k \in DOMAIN call.ns[call.node].children}}

UnionBoxReturned ==
    /\ cpc = "returned"
    /\ call.op = "union_bounding_box"
    /\ call.ns[call.node].children # <<>>

\* C17: for a union with at least one child, Union::bounding_box has on each
\* axis the least of the children's lower bounds and the greatest of their
\* upper bounds, and nothing else (the origin) contributes.
C17_UnionOfChildren ==
    UnionBoxReturned =>
        \A i \in 1..3 :
            /\ ret.lower[i] = Least({b.lower[i] : b \in ChildBoxes})
            /\ ret.upper[i] = Greatest({b.upper[i] : b \in ChildBoxes})

\* C17 with the origin as one more box
C17_UnionOfChildrenAndOrigin ==
    UnionBoxReturned =>
        \A i \in 1..3 :
            /\ ret.lower[i] = Least({b.lower[i] : b \in ChildBoxes \cup {aabb_default}})
            /\ ret.upper[i] = Greatest({b.upper[i] : b \in ChildBoxes \cup {aabb_default}})

\* C17: a union whose children are all on one side of the origin on some axis,
\* and whose box reaches the origin
C17_OriginInBox ==
    /\ UnionBoxReturned
    /\ \E i \in 1..3 :
        /\ \A b \in ChildBoxes : b.lower[i] > 0
        /\ ret.lower[i] = 0

\* The object with the identity transform in place of none
WithIdentity(o) == [o EXCEPT !.transform = Some(identity)]

\* C18, first part: without a transform, intersects returns what it returns
\* with the identity transform
C18_SameIntersects ==
    (cpc = "returned" /\ call.op = "object_intersects" /\ ~IsSome(call.obj.transform)) =>
        ret = object_intersects(WithIdentity(call.obj), call.ray)

\* C18, first part: without a transform, surface_at returns what it returns
\* with the identity transform
C18_SameSurface ==
    (cpc = "returned" /\ call.op = "surface_at" /\ ~IsSome(call.obj.transform)) =>
        ret = surface_at(WithIdentity(call.obj), call.pt)

\* C18, first part: without a transform, bounding_box returns what it returns
\* with the identity transform
C18_SameBoundingBox ==
    (cpc = "returned" /\ call.op = "bounding_box" /\ ~IsSome(call.ns[call.node].transform)) =>
        ret = object_bounding_box(call.ns, WithIdentity(call.ns[call.node]))

\* C18, second part: with a transform T, intersects is nothing iff the
\* primitive has no hit for the ray moved by T.inverse, and otherwise is
\* T.matrix applied to the point at the hit distance along that ray
C18_IntersectsThroughTransform ==
    (cpc = "returned" /\ call.op = "object_intersects" /\ IsSome(call.obj.transform)) =>
        LET T == Unwrap(call.obj.transform)
            moved == NewRay(MatVec(T.inverse, call.ray.src),
                            normalize(vector_transform(call.ray.dir, T.inverse)))
            hit == primitive_intersects(call.obj, moved)
        IN  /\ ret = NoneOpt <=> hit = NoneOpt
            /\ hit # NoneOpt =>
                ret = Some(MatVec(T.matrix, VAdd(moved.src, VScale(moved.dir, Unwrap(hit)))))

\* C18: an object with no transform behaves like the same object with the
\* identity transform for intersects, surface_at and bounding_box, and with a
\* transform T intersects works through T.inverse and T.matrix.
C18_NoTransformIsIdentity ==
    /\ C18_SameIntersects
    /\ C18_SameSurface
    /\ C18_SameBoundingBox
    /\ C18_IntersectsThroughTransform

\* C18: the bounding box of a plane without a transform, which is not the
\* bounding box of the plane with the identity transform
C18_PlaneBoxDiffers ==
    /\ cpc = "returned"
    /\ call.op = "bounding_box"
    /\ call.ns[call.node].kind = "Plane"
    /\ ~IsSome(call.ns[call.node].transform)
    /\ ret = AxisAlignedBox(point(NegInf, NegInf, NegInf), point(Inf, Inf, Inf))
    /\ object_bounding_box(call.ns, WithIdentity(call.ns[call.node]))
           = AxisAlignedBox(point(NaN, NaN, NaN), point(NaN, NaN, NaN))

\* C18: an object under a transform that is not the identity was hit
C18_HitUnderTransform ==
    /\ cpc = "returned"
    /\ call.op = "object_intersects"
    /\ IsSome(call.obj.transform)
    /\ Unwrap(call.obj.transform) # identity
    /\ IsSome(ret)

\* C18, first part, for the rays that miss or hit at a finite distance
C18_SameFiniteIntersects ==
    (/\ cpc = "returned"
     /\ call.op = "object_intersects"
     /\ ~IsSome(call.obj.transform)
     /\ \A i \in 1..Len(ret) : \A j \in 1..3 : IsFinite(ret[i][j])) =>
        ret = object_intersects(WithIdentity(call.obj), call.ray)

\* C18, first part, for the objects whose primitive has a finite box
C18_SameFiniteBoundingBox ==
    (/\ cpc = "returned"
     /\ call.op = "bounding_box"
     /\ ~IsSome(call.ns[call.node].transform)
     /\ \A j \in 1..3 : IsFinite(ret.lower[j]) /\ IsFinite(ret.upper[j])) =>
        ret = object_bounding_box(call.ns, WithIdentity(call.ns[call.node]))

\* The distances, in the small lengths of the spheres, from an origin of
\* SphereRays to a centre
Reach == 1..40

\* The ray points at the centre of the sphere from the distance k
AimedFrom(r, obj, k) == VAdd(r.src, VScale(r.dir, k)) = obj.centre

\* C19: for a ray whose origin is outside the sphere and whose direction
\* points at the centre, Sphere::intersects returns the distance from the
\* origin to the centre minus the radius.
C19_HitAtDistanceLessRadius ==
    (cpc = "returned" /\ call.op = "intersects" /\ call.prim.kind = "Sphere") =>
        \A k \in Reach :
            (AimedFrom(call.ray, call.prim, k) /\ k > call.prim.radius)
                => ret = Some(k - call.prim.radius)

\* C19: a ray from outside at the centre of the sphere that is not about the
\* origin, with the distance returned
C19_Witness ==
    /\ cpc = "returned"
    /\ call.op = "intersects"
    /\ call.prim.kind = "Sphere"
    /\ call.prim.centre # point(0, 0, 0)
    /\ \E k \in Reach :
        /\ AimedFrom(call.ray, call.prim, k)
        /\ k > call.prim.radius
        /\ ret = Some(k - call.prim.radius)

\* The ray from the camera through the middle of the pixel, where
\* Projection::ray_for takes the corner of the pixel
ray_for_middle(self, x, y) ==
    LET pixel_pos == VAdd(VAdd(self.topleft, Over(Times((2 * x) + 1, self.dx), 2)),
                          Over(Times((2 * y) + 1, self.dy), 2))
        v == MilliNormalize(between(self.src, pixel_pos))
    IN  [src |-> self.src, dir |-> MilliNormalize(v)]

PixelOfOneByOne ==
    /\ cpc = "returned"
    /\ call.op = "pixel"
    /\ call.width = 1
    /\ call.height = 1

\* C20: in the scene of the unit sphere about the origin and the camera at
\* (0, 0, -5) looking down +Z, rendered at 1x1, the ray of the pixel (0, 0)
\* hits the sphere, so the pixel is not the black of the sky.
C20_PixelRayHitsSphere ==
    PixelOfOneByOne => (IsSome(ret.hit) /\ ret.sky # Some(COLOUR_BLACK))

\* C20: the ray of the only pixel leaves the camera up and to the left, misses
\* the sphere, and the pixel is the black of the sky
C20_CornerRayMisses ==
    /\ PixelOfOneByOne
    /\ ret.ray.dir[1] < 0
    /\ ret.ray.dir[2] > 0
    /\ ret.hit = NoneOpt
    /\ ret.sky = Some(COLOUR_BLACK)

\* C20: the pixel whose corner is the middle of the image has the ray along
\* +Z, which hits the sphere at the distance 4
C20_MiddleRayHits ==
    /\ cpc = "returned"
    /\ call.op = "pixel"
    /\ call.width = 2 * call.x
    /\ call.height = 2 * call.y
    /\ ret.ray.dir = <<0, 0, Thousand>>
    /\ ret.hit = Some(4 * Thousand)

\* C20: the ray through the middle of the only pixel is the ray along +Z,
\* which hits the sphere at the distance 4
C20_MiddleOfPixelHits ==
    PixelOfOneByOne =>
        LET r == ray_for_middle(projector(call.camera, call.width, call.height,
                                          call.tan_h, call.tan_v), call.x, call.y)
        IN  r.dir = <<0, 0, Thousand>>
                /\ milli_sphere_intersects(call.sphere, r) = Some(4 * Thousand)

\* The channel n / (d * ColourUnit) clamped to [0, 1] and scaled to 0..255,
\* the fraction dropped
ClampedByte(n, d) ==
    IF n <= 0 THEN 0
    ELSE IF n >= d * ColourUnit THEN 255
    ELSE CHOOSE k \in 0..255 :
            k * (d * ColourUnit) <= 255 * n /\ 255 * n < (k + 1) * (d * ColourUnit)

\* C21: for every colour, pack_pixel gives alpha 255 and red, green and blue
\* the channel clamped to [0, 1] and scaled to 0..255: 255 for a channel >= 1
\* and 0 for a channel <= 0.
C21_PackClamps ==
    (cpc = "returned" /\ call.op = "pack_pixel") =>
        /\ ret[4] = 255
        /\ \A i \in 1..3 : ret[i] = ClampedByte(call.c.num[i], call.c.den)

\* C21: a colour with a channel below 0, one above 1 and one between
C21_Witness ==
    /\ cpc = "returned"
    /\ call.op = "pack_pixel"
    /\ call.c.num[1] < 0
    /\ call.c.num[2] > call.c.den * ColourUnit
    /\ call.c.num[3] > 0
    /\ call.c.num[3] < call.c.den * ColourUnit
    /\ ret[1] = 0
    /\ ret[2] = 255
    /\ ret[3] \in 1..254

\* The unions whose children Scene::lights is visiting
UnionsBeingVisited == IF lpc = "children" THEN {objects[li]} ELSE {}

\* C22: during Scene::lights the depth of the transform stack is 1 plus the
\* number of unions whose children are being visited, so the stack is never
\* empty and every push is undone by one pop; when the traversal has ended the
\* stack is the identity alone.
C22_StackDepthIsNesting ==
    lpc # "idle" =>
        /\ Len(transform_stack) = 1 + Cardinality(UnionsBeingVisited)
        /\ transform_stack[1] = identity
        /\ lpc = "done" => transform_stack = <<identity>>

\* C22: the traversal has ended after a child of a transformed union was
\* visited under the union's transform
C22_Witness ==
    /\ lpc = "done"
    /\ transform_stack = <<identity>>
    /\ \E k \in 1..Len(lights) : lights[k].transform # identity
    /\ \E n \in DOMAIN nodes : nodes[n].kind = "Union" /\ Len(nodes[n].children) = 2

\* C23: pop_transform called on a stack that holds only the identity base is
\* a fatal error raised at that call; it does not return with the base
\* removed.
C23_UnmatchedPopPanics ==
    (/\ call.op = "pop_transform"
     /\ cpc # "called"
     /\ call.v.transform_stack = <<identity>>) => cpc = "panicked"

\* C23 for the traversal after the unmatched pop: it does not continue on the
\* emptied stack, every visit on it is a fatal error
C23_VisitAfterPopPanics ==
    (/\ call.op = "visit"
     /\ cpc # "called"
     /\ call.v.transform_stack = <<>>) => cpc = "panicked"

-----------------------------------------------------------------------------
(* trace: what one iteration enqueues and records *)

\* the weight w is the product of the weight v and the coefficient reflection
IsProduct(w, v, reflection) ==
    BigMul(BigMul(v.den, ColourUnit), w.num) = BigMul(w.den, v.num * reflection)

\* the product of the weight v and the coefficient reflection is greater
\* than 1e-12
ProductAboveThreshold(v, reflection) ==
    LET p == BigMul(THRESHOLD, v.num * reflection)
        q == BigMul(v.den, ColourUnit)
    IN  p.hi > q.hi \/ (p.hi = q.hi /\ p.lo > q.lo)

\* the weighted colour c is the colour times the weight w
IsWeighted(c, colour, w) ==
    \A i \in 1..3 :
        IF colour[i] = 0 THEN c.num[i] = 0
        ELSE w.den.hi = 0 /\ c.num[i] * w.den.lo = colour[i] * w.num * c.den

\* the sum of the first k contributions
RECURSIVE SumOfContribs(_)
SumOfContribs(k) ==
    IF k = 0 THEN [num |-> COLOUR_BLACK, den |-> 1]
    ELSE weighted_sum(SumOfContribs(k - 1), contribs[k])

\* the pair that the iteration takes from the queue
Processed == Head(rays)

\* the reflection coefficient of the surface that the processed ray hits, the
\* intersection being ix
ReflectionAt(ix) == surface_at(nodes[Unwrap(ix).obj], Unwrap(ix).point).finish.reflection

\* the colour of the processed ray, the intersection being ix
ColourAt(ix) ==
    IF IsSome(ix)
    THEN LET surface == surface_at(nodes[Unwrap(ix).obj], Unwrap(ix).point)
         IN  light_surface(Processed.ray.dir, Unwrap(ix).point, surface.normal,
                           surface.colour, surface.finish, nodes, objects, lights)
    ELSE COLOUR_BLACK

\* one iteration of trace enqueues a reflected ray iff the processed ray hit
\* a surface of reflection > 0 and weight * reflection > 1e-12, enqueues it
\* with that product as its weight, and records the colour times the weight
EnqueuesReflected ==
    (tpc = "loop" /\ rays # <<>>) =>
        LET ix == last_ix'
            queued == SubSeq(rays', Len(rays), Len(rays'))
            reflects == /\ IsSome(ix)
                        /\ ReflectionAt(ix) > 0
                        /\ ProductAboveThreshold(Processed.weight, ReflectionAt(ix))
        IN  /\ ix = closest_intersecting_object(Processed.ray, nodes, objects)
            /\ SubSeq(rays', 1, Len(rays) - 1) = Tail(rays)
            /\ Len(queued) = IF reflects THEN 1 ELSE 0
            /\ reflects =>
                   /\ IsProduct(queued[1].weight, Processed.weight, ReflectionAt(ix))
                   /\ queued[1].ray.dir = ray_reflect(Processed.ray, surface_at(nodes[Unwrap(ix).obj], Unwrap(ix).point).normal, Unwrap(ix).point).dir
            /\ Len(contribs) < MaxContribs =>
                   /\ Len(contribs') = Len(contribs) + 1
                   /\ IsWeighted(Last(contribs'), ColourAt(ix), Processed.weight)

\* the first ray has the weight 1.0, and the colour that trace returns is the
\* sum of the contributions
SumsContribs ==
    /\ (tpc = "loop" /\ contribs = <<>> /\ rays # <<>>) => Processed.weight = WeightOne
    /\ tpc = "done" => pixel = SumOfContribs(Len(contribs))

\* C24: after trace has processed a (ray, weight) pair, a reflected ray is
\* enqueued iff the ray hit a surface of reflection > 0 with
\* weight * reflection > 1e-12, and its weight is that product; a ray that
\* hits nothing enqueues nothing.  The first weight being 1.0, the weight of
\* a ray is the product of the reflection coefficients before it, and the
\* colour returned is the sum of (shaded or sky colour) * weight.
C24_ReflectedIffAboveThreshold == [][EnqueuesReflected]_vars /\ []SumsContribs

\* C24: the chain of two facing mirrors of coefficient 0.5 has ended below
\* the threshold, and a ray reflected by a mirror of coefficient 0.5 has hit
\* a wall and left a contribution of half the ambient colour of the wall
C24_Witness ==
    /\ tpc = "loop"
    /\ rays = <<>>
    /\ IsSome(last_ix)
    /\ \/ /\ ReflectionAt(last_ix) = Half
          /\ Len(contribs) = 40
       \/ /\ Len(contribs) = 2
          /\ contribs[2].num # COLOUR_BLACK
          /\ IsWeighted(contribs[2], CTimes(COLOUR_WHITE, DefaultFinish.ambient), [num |-> 1, den |-> [hi |-> 0, lo |-> 2]])

-----------------------------------------------------------------------------
(* light_surface: the terms of the sum *)

LightSurfaceEnded == call.op = "light_surface" /\ cpc # "called"

\* the sum of the colours of a sequence
RECURSIVE SumOf(_)
SumOf(cs) == IF cs = <<>> THEN COLOUR_BLACK ELSE CAdd(Head(cs), SumOf(Tail(cs)))

\* the ambient term: surface colour * ambient coefficient
AmbientTerm == CTimes(call.surface_colour, call.surface_finish.ambient)

\* the beam from the surface point to light k of the scene
BeamOf(k) == VSub(nodes[lights[k].light].loc, call.surface_pt)

\* light k is before the surface: the dot product of its direction and the
\* surface normal is > 0
Facing(k) == dot(BeamOf(k), call.surface_normal) > 0

\* the shadow test of light k: a top-level object is hit on the way from the
\* surface to the light, nearer than the light
Shadowed(k) ==
    LET from == VAdd(call.surface_pt, VScale(call.surface_normal, Million))
        light_ray == NewRay(from, normalize(BeamOf(k)))
    IN  \E i \in 1..Len(objects) :
            LET hit == object_intersects(nodes[objects[i]], light_ray)
            IN  IsSome(hit) /\ distance(from, Unwrap(hit)) < length(BeamOf(k))

\* the diffuse and the specular term of light k
DirectTerm(k) ==
    LET dir == normalize(BeamOf(k))
        light_colour == nodes[lights[k].light].colour
        diffuse == CScale(CMul(CTimes(call.surface_colour, call.surface_finish.diffuse), light_colour),
                          dot(dir, call.surface_normal))
        half == normalize(VSub(dir, call.viewdir))
        specular == CScale(light_colour, powf(FMax(dot(half, call.surface_normal), 0), call.surface_finish.highlight_hardness))
    IN  CAdd(diffuse, specular)

\* what light k adds besides an ambient term
TermOf(k) == IF Facing(k) /\ ~Shadowed(k) THEN DirectTerm(k) ELSE COLOUR_BLACK

\* C25: the colour that light_surface returns is a sum over the lights in
\* which every light contributes one ambient term, surface colour * ambient
\* coefficient: N ambient terms with N lights, none with no lights.
C25_AmbientTermPerLight ==
    (LightSurfaceEnded /\ cpc = "returned") =>
        ret = SumOf([k \in 1..Len(lights) |-> CAdd(AmbientTerm, TermOf(k))])

\* C26: in light_surface a light adds its diffuse and its specular term iff
\* the dot product of its direction and the surface normal is > 0 and its
\* shadow test is false; a light behind the surface or in shadow adds neither,
\* and what one light adds does not depend on the other lights.
C26_DirectTermIffFacingAndLit ==
    (LightSurfaceEnded /\ cpc = "returned") =>
        ret = CAdd(AmbientTerm, SumOf([k \in 1..Len(lights) |-> TermOf(k)]))

\* C26: light_surface returned for a scene in which one light is shadowed by
\* the screen and another, between the screen and the surface, adds its terms
C26_Witness ==
    /\ LightSurfaceEnded
    /\ cpc = "returned"
    /\ \E j, k \in 1..Len(lights) :
           /\ Facing(j) /\ Shadowed(j)
           /\ Facing(k) /\ ~Shadowed(k)
           /\ DirectTerm(k) # COLOUR_BLACK
           /\ ret = CAdd(AmbientTerm, DirectTerm(k))

\* C26: light_surface returned the ambient term alone for a scene whose only
\* light is behind the surface
C26_WitnessBehind ==
    /\ LightSurfaceEnded
    /\ cpc = "returned"
    /\ Len(lights) = 1
    /\ ~Facing(1) /\ ~Shadowed(1)
    /\ ret = AmbientTerm

-----------------------------------------------------------------------------
(* render: the order of spawning and receiving *)

\* C27: in render every pixel task is spawned before the dispatching thread
\* attempts to receive the first result (width * height tasks, for the
\* widths that fit 32 bits), and no spawn waits for a result to be received:
\* while a spawn is left to do it can be done, whatever the channel holds.
C27_SpawnsBeforeReceives ==
    /\ rpc = "spawn" => received = <<>>
    /\ rpc \in {"gather", "join", "done", "failed"} =>
           /\ DOMAIN tasks = ImagePixels
           /\ width.hi = 0 => Cardinality(DOMAIN tasks) = pixel_count.lo
    /\ (rpc = "spawn" /\ sy < as_u32(height)) => ENABLED Spawn

\* C27: the closure is about to receive its first result of a 2 x 2 image;
\* the four tasks are spawned and two results, sent while the closure was
\* spawning, wait in the channel
C27_Witness ==
    /\ rpc = "gather"
    /\ received = <<>>
    /\ Cardinality(DOMAIN tasks) = 4
    /\ Len(chan) >= 2

\* C27: a task has sent its result and the closure has spawns left to do
C27_WitnessSpawning ==
    /\ rpc = "spawn"
    /\ sy < as_u32(height)
    /\ chan # <<>>

-----------------------------------------------------------------------------
(* Plane::intersects and the rays parallel to the plane *)

PlaneIntersectsEnded == call.op = "intersects" /\ call.prim.kind = "Plane" /\ cpc # "called"

\* the ray of the call is parallel to the plane: direction . normal = 0
Parallel == dot(call.ray.dir, call.prim.normal) = 0

\* C28: Plane::intersects returns nothing for every ray parallel to the
\* plane, whichever side of the plane the origin of the ray is on, and the
\* distance it returns is a positive finite number.
C28_ParallelRayMisses ==
    PlaneIntersectsEnded =>
        /\ cpc = "returned"
        /\ Parallel => ret = NoneOpt
        /\ IsSome(ret) => (Unwrap(ret) > 0 /\ ~IsInf(Unwrap(ret)) /\ ~IsNaN(Unwrap(ret)))

\* C28 for the parallel rays whose origin is on the plane or on the side the
\* normal points to (offset - origin . normal <= 0), and for the rays that
\* are not parallel
C28_MissesBeforeThePlane ==
    (/\ PlaneIntersectsEnded
     /\ ~Parallel \/ call.prim.offset - dot(call.ray.src, call.prim.normal) <= 0) =>
        /\ cpc = "returned"
        /\ Parallel => ret = NoneOpt
        /\ IsSome(ret) => (Unwrap(ret) > 0 /\ ~IsInf(Unwrap(ret)) /\ ~IsNaN(Unwrap(ret)))

-----------------------------------------------------------------------------
(* trace: the length of the work queue *)

\* the weight w is greater than 1e-12
WeightAboveThreshold(w) == ProductAboveThreshold(w, ColourUnit)

\* the queue holds at most one pair, whose weight is greater than 1e-12
SingleChain ==
    tpc # "idle" =>
        /\ Len(rays) <= 1
        /\ \A k \in 1..Len(rays) : WeightAboveThreshold(rays[k].weight)

\* an iteration removes the pair at the head of the queue, adds at most one
\* pair and records one contribution
RemovesOneAddsAtMostOne ==
    (tpc = "loop" /\ rays # <<>>) =>
        /\ SubSeq(rays', 1, Len(rays) - 1) = Tail(rays)
        /\ Len(rays') <= Len(rays)
        /\ Len(contribs) < MaxContribs => Len(contribs') = Len(contribs) + 1

\* C29: in trace the work queue never holds more than one (ray, weight)
\* pair: each iteration removes one pair and adds at most one, records
\* exactly one contribution for the ray it processed, and every queued weight
\* is > 1e-12 (the initial weight 1.0 included).
C29_QueueHoldsOneRay == []SingleChain /\ [][RemovesOneAddsAtMostOne]_vars

\* C29: the 39th reflected ray of two facing mirrors of coefficient 0.5 is
\* alone in the queue, with the weight 2^-39, after 39 contributions
C29_Witness ==
    /\ tpc = "loop"
    /\ Len(rays) = 1
    /\ Len(contribs) = 39
    /\ rays[1].weight.num = 1
    /\ rays[1].weight.den.hi > 0
    /\ WeightAboveThreshold(rays[1].weight)
    /\ ~ProductAboveThreshold(rays[1].weight, Half)

-----------------------------------------------------------------------------
(* closest_intersecting_object and the objects inside unions *)

\* the children of the unions that ray r meets
NestedHits(r) ==
    {n \in DOMAIN nodes : ParentOf(n) # 0 /\ IsSome(object_intersects(nodes[n], r))}

\* the top-level objects with a surface that ray r meets nearer than d
TopLevelHits(r, d) ==
    {k \in 1..Len(objects) :
        /\ nodes[objects[k]].kind \notin {"Union", "PointLight"}
        /\ IsSome(HitPoint(r, k))
        /\ HitDistance(r, k) < d}

\* C30: closest_intersecting_object never returns a union, a point light or
\* a child of a union: it returns a top-level object with a surface that the
\* ray meets, or nothing when there is none, so that an object inside a
\* union is never the surface a ray sees and never casts a shadow.
C30_OnlyTopLevelSurfaces ==
    /\ (cpc = "returned" /\ call.op = "closest_intersecting_object") =>
           IF IsSome(ret)
           THEN /\ \E k \in TopLevelHits(call.r, Inf) : objects[k] = Unwrap(ret).obj
                /\ ParentOf(Unwrap(ret).obj) = 0
           ELSE TopLevelHits(call.r, Inf) = {}
    /\ (cpc = "returned" /\ call.op = "is_shadowed") =>
           (ret <=> TopLevelHits(call.light_ray, call.light_distance) # {})

\* C30: closest_intersecting_object returned the far wall for a ray that
\* meets, nearer than the wall, the plane inside a union
C30_Witness ==
    /\ cpc = "returned"
    /\ call.op = "closest_intersecting_object"
    /\ IsSome(ret)
    /\ nodes[Unwrap(ret).obj] = FarWall
    /\ \E n \in NestedHits(call.r) :
           /\ nodes[n].kind = "Plane"
           /\ distance(call.r.src, Unwrap(object_intersects(nodes[n], call.r))) < Unwrap(ret).dist

\* C30: is_shadowed returned false for a light ray that meets the plane
\* inside a union nearer than the light
C30_WitnessShadow ==
    /\ cpc = "returned"
    /\ call.op = "is_shadowed"
    /\ ret = FALSE
    /\ \E n \in NestedHits(call.light_ray) :
           /\ nodes[n].kind = "Plane"
           /\ distance(call.light_ray.src, Unwrap(object_intersects(nodes[n], call.light_ray))) < call.light_distance

====
